---------------------------- MODULE Spec2Model ----------------------------
(***************************************************************************)
(* State-machine model of the Solaire / Panharmonium spectral resynthesis *)
(* engine: the engine guard and the two threads that use it               *)
(* (PanharmoniumEngine.cpp), the STFT FIFO bookkeeping, the               *)
(* McAulay-Quatieri partial tracker (PartialTracking.h), the oscillator   *)
(* bank (OscillatorBank.h), the peak extraction                           *)
(* (SpectralPeakExtraction.h) and the parameter setters.                  *)
(*                                                                         *)
(* Numbers.  Floats are modelled by exact integers:                        *)
(*   - frequencies are whole Hz;                                           *)
(*   - amplitudes are counted in units of 1e-5, so AMPLITUDE_THRESHOLD     *)
(*     (0.001f) is 100 and amplitude * 0.9f is (a * 9) \div 10 (exact on   *)
(*     the multiples of 10 the inputs use);                                *)
(*   - the slice parameter is counted in tenths (0..10 for 0.0..1.0).      *)
(* Sizes are scaled so that the state space is finite and small: FFT       *)
(* orders 7..14 become MIN_ORDER..MAX_ORDER, the 33 tracks / 33 peaks      *)
(* become MaxActiveTracks / MaxSpectralPeaks, and sample rates are chosen  *)
(* so that the slice formula yields orders in the scaled range.  The FFT   *)
(* itself (juce::dsp::FFT) is library code: the peak list of a frame is an *)
(* input of the model.                                                     *)
(***************************************************************************)
EXTENDS Integers, Sequences, FiniteSets, TLC

(***************************************************************************)
(* Bounds of the model                                                     *)
(***************************************************************************)
\* cap on the tracker's active set (maxActiveTracks, 33 in the source)
MaxActiveTracks == 2
\* cap on the peaks of one frame (maxSpectralPeaks, 33 in the source)
MaxSpectralPeaks == 2
\* number of frames a tracker-only behaviour runs
MaxFrames == 4

(***************************************************************************)
(* Program constants                                                       *)
(***************************************************************************)
MAX_HISTORY_SIZE == 5
MAX_FRAMES_DEAD == 3
\* 0.001f in units of 1e-5
AMPLITUDE_THRESHOLD == 100
\* MAX_FREQ_DEVIATION_RATIO = 0.1f, as the divisor 10
FREQ_DEVIATION_DIV == 10

(***************************************************************************)
(* Inputs of the tracker: peaks                                            *)
(***************************************************************************)
\* peak frequencies, more than 10% apart from each other
PeakFreqs == {100, 200, 400}
\* peak magnitudes: 50 is below AMPLITUDE_THRESHOLD, 200 above it
PeakMags == {50, 200}
PeakPhases == {0}
\* the frequencies at which the inputs also have a weak peak
WeakPeakFreqs == {100}

SpectralPeak ==
    { p \in [frequency : PeakFreqs, magnitude : PeakMags, phase : PeakPhases] :
        p.magnitude >= AMPLITUDE_THRESHOLD \/ p.frequency \in WeakPeakFreqs }

\* what extractDominantPeaks may hand to the tracker: at most MaxSpectralPeaks
\* peaks of distinct frequencies, in non-increasing magnitude order (equal
\* magnitudes in any order: std::sort is not stable)
IsPeakList(s) ==
    /\ \A i, j \in 1..Len(s) : i < j => s[i].frequency # s[j].frequency
    /\ \A i \in 1..(Len(s) - 1) : s[i].magnitude >= s[i + 1].magnitude

PeakLists ==
    UNION { { s \in [1..n -> SpectralPeak] : IsPeakList(s) } : n \in 0..MaxSpectralPeaks }

(***************************************************************************)
(* PartialTrack (PartialTracking.h)                                        *)
(***************************************************************************)
\* PartialTrack(int id, const SpectralPeak& peak)
NewPartialTrack(id, peak) ==
    [ trackID |-> id,
      frequency |-> peak.frequency,
      amplitude |-> peak.magnitude,
      phase |-> peak.phase,
      prevFrequency |-> peak.frequency,
      prevAmplitude |-> peak.magnitude,
      framesSinceCreation |-> 1,
      framesSinceLastUpdate |-> 0,
      isActive |-> TRUE,
      frequencyHistory |-> << peak.frequency >>,
      amplitudeHistory |-> << peak.magnitude >> ]

\* a plausible slip: the deque is never shortened
PushHistory_NoCap(h, v) == Append(h, v)

\* push_back, then pop_front when the deque is longer than MAX_HISTORY_SIZE
PushHistory(h, v) ==
    LET h2 == Append(h, v)
    IN  IF Len(h2) > MAX_HISTORY_SIZE THEN Tail(h2) ELSE h2

\* a plausible slip: the updated track is rebuilt from the peak and loses its id
UpdateFromPeak_LosesId(t, peak) ==
    [ NewPartialTrack(-1, peak) EXCEPT !.framesSinceCreation = t.framesSinceCreation + 1 ]

\* PartialTrack::updateFromPeak
UpdateFromPeak(t, peak) ==
    [ t EXCEPT !.prevFrequency = t.frequency,
               !.prevAmplitude = t.amplitude,
               !.frequency = peak.frequency,
               !.amplitude = peak.magnitude,
               !.phase = peak.phase,
               !.framesSinceLastUpdate = 0,
               !.framesSinceCreation = @ + 1,
               !.frequencyHistory = PushHistory(@, peak.frequency),
               !.amplitudeHistory = PushHistory(@, peak.magnitude) ]

\* a plausible slip: the decay is computed and not stored
FadeOut_NoDecay(t) ==
    [ t EXCEPT !.prevAmplitude = t.amplitude,
               !.framesSinceLastUpdate = @ + 1 ]

\* PartialTrack::fadeOut
FadeOut(t) ==
    [ t EXCEPT !.prevAmplitude = t.amplitude,
               !.amplitude = (t.amplitude * 9) \div 10,
               !.framesSinceLastUpdate = @ + 1 ]

\* PartialTrack::predictedFrequency
PredictedFrequency(t) ==
    LET n == Len(t.frequencyHistory)
    IN  IF n >= 2
        THEN t.frequency + (t.frequencyHistory[n] - t.frequencyHistory[n - 1])
        ELSE t.frequency

Abs(x) == IF x < 0 THEN -x ELSE x

(***************************************************************************)
(* PartialTrackingEngine (PartialTracking.h)                               *)
(***************************************************************************)
\* The inner loop of performGreedyMatching for one track: scan the peaks from
\* index i on.  best is bestMatchIndex (0 for -1) and best10 is ten times
\* bestDistance, so that bestDistance = predictedFreq * 0.1f stays an integer.
RECURSIVE ScanPeaks(_, _, _, _, _, _)
ScanPeaks(i, best, best10, predicted, peaks, matched) ==
    IF i > Len(peaks) THEN best
    ELSE IF matched[i] THEN ScanPeaks(i + 1, best, best10, predicted, peaks, matched)
    ELSE LET freqDiff10 == FREQ_DEVIATION_DIV * Abs(peaks[i].frequency - predicted)
         IN  IF freqDiff10 < best10
             THEN ScanPeaks(i + 1, i, freqDiff10, predicted, peaks, matched)
             ELSE ScanPeaks(i + 1, best, best10, predicted, peaks, matched)

\* a plausible slip: a peak exactly 10% away is accepted (<= for <)
BestMatchIndex_Inclusive(t, peaks, matched) ==
    ScanPeaks(1, 0, PredictedFrequency(t) + 1, PredictedFrequency(t), peaks, matched)

\* bestMatchIndex of one track (0 when there is none)
BestMatchIndex(t, peaks, matched) ==
    ScanPeaks(1, 0, PredictedFrequency(t), PredictedFrequency(t), peaks, matched)

\* The outer loop of performGreedyMatching from track k on.
RECURSIVE GreedyFrom(_, _, _, _)
GreedyFrom(k, tracks, peaks, matched) ==
    IF k > Len(tracks) THEN [tracks |-> tracks, matched |-> matched]
    ELSE LET b == BestMatchIndex(tracks[k], peaks, matched)
         IN  IF b > 0
             THEN GreedyFrom(k + 1,
                             [tracks EXCEPT ![k] = UpdateFromPeak(tracks[k], peaks[b])],
                             peaks,
                             [matched EXCEPT ![b] = TRUE])
             ELSE GreedyFrom(k + 1, tracks, peaks, matched)

\* PartialTrackingEngine::performGreedyMatching
PerformGreedyMatching(tracks, peaks) ==
    GreedyFrom(1, tracks, peaks, [i \in 1..Len(peaks) |-> FALSE])

\* a plausible slip: the ageing loop iterates over a copy and ages nothing
AgeTracks_NoAging(tracks) == tracks

\* first loop of processFrame
AgeTracks(tracks) ==
    [i \in 1..Len(tracks) |->
        [tracks[i] EXCEPT !.framesSinceLastUpdate = @ + 1]]

\* fade-out loop of processFrame
FadeUnmatched(tracks) ==
    [i \in 1..Len(tracks) |->
        IF tracks[i].framesSinceLastUpdate = 1 THEN FadeOut(tracks[i]) ELSE tracks[i]]

\* a plausible slip: an off-by-one in the age test keeps a track one frame longer
IsDead_OffByOne(t) ==
    \/ ~t.isActive
    \/ t.framesSinceLastUpdate > MAX_FRAMES_DEAD + 1
    \/ t.amplitude < AMPLITUDE_THRESHOLD

\* the remove_if predicate of processFrame
IsDead(t) ==
    \/ ~t.isActive
    \/ t.framesSinceLastUpdate > MAX_FRAMES_DEAD
    \/ t.amplitude < AMPLITUDE_THRESHOLD

\* activeTracks.erase(std::remove_if(...)): the survivors keep their order
RemoveDead(tracks) == SelectSeq(tracks, LAMBDA t : ~IsDead(t))

\* the loop of createNewTracks from peak i on
RECURSIVE CreateFrom(_, _, _, _, _, _)
CreateFrom(i, tracksToCreate, tracks, nextId, peaks, matched) ==
    IF i > Len(peaks) \/ tracksToCreate <= 0
    THEN [tracks |-> tracks, nextId |-> nextId]
    ELSE IF ~matched[i]
         THEN CreateFrom(i + 1, tracksToCreate - 1,
                         Append(tracks, NewPartialTrack(nextId, peaks[i])),
                         nextId + 1, peaks, matched)
         ELSE CreateFrom(i + 1, tracksToCreate, tracks, nextId, peaks, matched)

\* a plausible slip: the counter is advanced on a copy and the next frame reuses ids
CreateNewTracks_CounterNotKept(tracks, nextId, peaks, matched) ==
    [ tracks |-> CreateFrom(1, MaxActiveTracks - Len(tracks), tracks, nextId,
                            peaks, matched).tracks,
      nextId |-> nextId ]

\* a plausible slip: the budget is the cap itself, not the cap minus the tracks held
CreateNewTracks_NoRoomCheck(tracks, nextId, peaks, matched) ==
    CreateFrom(1, MaxActiveTracks, tracks, nextId, peaks, matched)

\* a plausible slip: the matched flags are not consulted at birth
CreateNewTracks_MatchedIgnored(tracks, nextId, peaks, matched) ==
    CreateFrom(1, MaxActiveTracks - Len(tracks), tracks, nextId, peaks,
               [i \in 1..Len(peaks) |-> FALSE])

\* a plausible slip: the peaks are walked from the weakest to the strongest
CreateNewTracks_WeakestFirst(tracks, nextId, peaks, matched) ==
    CreateFrom(1, MaxActiveTracks - Len(tracks), tracks, nextId,
               [i \in 1..Len(peaks) |-> peaks[Len(peaks) + 1 - i]],
               [i \in 1..Len(peaks) |-> matched[Len(peaks) + 1 - i]])

\* a plausible slip: the new tracks are inserted at the front of the list
CreateNewTracks_AtFront(tracks, nextId, peaks, matched) ==
    LET c == CreateFrom(1, MaxActiveTracks - Len(tracks), << >>, nextId, peaks, matched)
    IN  [tracks |-> c.tracks \o tracks, nextId |-> c.nextId]

\* PartialTrackingEngine::createNewTracks
CreateNewTracks(tracks, nextId, peaks, matched) ==
    CreateFrom(1, MaxActiveTracks - Len(tracks), tracks, nextId, peaks, matched)

\* PartialTrackingEngine::processFrame, as a function of the tracker's state:
\* matchedTracks is the list after matching and fade-out (before the erase)
TrackerProcessFrame(tracks, nextId, peaks) ==
    LET m == PerformGreedyMatching(AgeTracks(tracks), peaks)
        faded == FadeUnmatched(m.tracks)
        born == CreateNewTracks(RemoveDead(faded), nextId, peaks, m.matched)
        kept == RemoveDead(faded)
    IN  [ activeTracks |-> born.tracks,
          nextTrackID |-> born.nextId,
          matchedPeakIndices |-> m.matched,
          bornTracks |-> SubSeq(born.tracks, Len(kept) + 1, Len(born.tracks)) ]

(***************************************************************************)
(* PanharmoniumEngine: configuration (PanharmoniumEngine.h/.cpp)           *)
(***************************************************************************)
\* jlimit(7, 14, newOrder): the order limits, scaled
MIN_ORDER == 3
MAX_ORDER == 4
\* int fftOrder = 10, scaled
DEFAULT_ORDER == 3
\* static constexpr int overlap = 4
overlap == 4
\* double sampleRate = 44100.0, scaled
DEFAULT_SAMPLE_RATE == 250
\* std::atomic<float> currentSlice{0.1f}, in tenths
DEFAULT_SLICE == 1
\* the parameter range 0.0f..1.0f, in tenths
PARAM_MIN == 0
PARAM_MAX == 10

\* sample rates the host may prepare the engine with (scaled)
SampleRates == {250, 500}
\* slice values processBlock passes to setSlice, in tenths
SliceInputs == {0, 1}
\* number of processSample calls of one behaviour
MaxSamples == 5
\* number of prepareToPlay / releaseResources calls of one behaviour
MaxCtlCalls == 2

\* juce::jlimit
Jlimit(lo, hi, v) == IF v < lo THEN lo ELSE IF v > hi THEN hi ELSE v

RECURSIVE Pow2(_)
Pow2(n) == IF n <= 0 THEN 1 ELSE 2 * Pow2(n - 1)

\* MIN_SLICE_MS * pow(MAX_SLICE_MS / MIN_SLICE_MS, value), in ms, for value in
\* tenths: 17 * (6400/17)^(k/10), rounded to whole ms
SliceMs(k) ==
    << 17, 31, 56, 101, 182, 330, 597, 1080, 1954, 3537, 6400 >>[k + 1]

\* round(log2(x)) for x = milliSamples / 1000: the n with
\* 2^(n - 1/2) <= x < 2^(n + 1/2), where 2^(n + 1/2) * 1000 = 2^n * 1414.2;
\* values below 2^(1/2) give 0, which jlimit raises to MIN_ORDER anyway
RECURSIVE RoundLog2From(_, _)
RoundLog2From(n, milliSamples) ==
    IF n >= 20 \/ milliSamples < (Pow2(n) * 14142) \div 10
    THEN n
    ELSE RoundLog2From(n + 1, milliSamples)

\* the order setSlice computes from the clamped value and the sample rate it read
SliceOrder(value, rate) ==
    Jlimit(MIN_ORDER, MAX_ORDER, RoundLog2From(0, SliceMs(value) * rate))

\* std::vector<float>::resize(n, 0.0f): keeps the elements it has, appends zeros
Resize(v, n) == [i \in 1..n |-> IF i <= Len(v) THEN v[i] ELSE 0]

\* std::fill(v.begin(), v.end(), 0.0f)
ZeroFill(v) == [i \in 1..Len(v) |-> 0]

(***************************************************************************)
(* Parameters read by a frame (PanharmoniumEngine.cpp, SolaireEngine.h)    *)
(***************************************************************************)
\* std::atomic<float> currentVoice{1.0f} and currentFreeze{0.0f}, in tenths
DEFAULT_VOICE == 10
DEFAULT_FREEZE == 0
\* the 0.5f of "freeze > 0.5f", in tenths
FREEZE_GATE == 5
\* the values setVoice / setFreeze are called with, in tenths
VoiceInputs == {0, 10}
\* the value of the host's VOICES parameter while the two threads run: the host
\* does not automate it there
HostVoiceInputs == {10}
FreezeInputs == {0, 10}

\* a plausible slip: the gate is never closed
IsFrozen_Never(freeze) == FALSE

\* const bool isFrozen = (freeze > 0.5f) (lines 190-191)
IsFrozen(freeze) == freeze > FREEZE_GATE

\* OscillatorBank::NUM_VOICES (33 in the source, the same 33 as the tracker's cap)
NUM_VOICES == MaxActiveTracks

\* static_cast<int>(voiceParam * 32.0f) + 1 (line 180), 32 being NUM_VOICES - 1;
\* voice is in tenths
MaxVoicesOf(voice) == (voice * (NUM_VOICES - 1)) \div PARAM_MAX + 1

(***************************************************************************)
(* SolaireVoice and OscillatorBank (OscillatorBank.h).  Of a voice the     *)
(* model keeps isActive, the target of its frequency smoother and its      *)
(* amplitude smoother (juce::SmoothedValue, linear): currentValue, target, *)
(* countdown and step.  The ramp step                                      *)
(* (target - currentValue) / countdown is taken with integer division.     *)
(***************************************************************************)
\* 0.01 s of smoothing (lines 45-46): stepsToTarget = floor(0.01 * sampleRate)
RAMP_DIV == 100
StepsToTarget(rate) == rate \div RAMP_DIV

\* a default-constructed SolaireVoice
NewVoice == [isActive |-> FALSE, frequency |-> 0, current |-> 0, target |-> 0,
             countdown |-> 0, step |-> 0]

\* SmoothedValue::setCurrentAndTargetValue(target): SolaireVoice::reset, and
\* SmoothedValue::reset(sampleRate, 0.01) in SolaireVoice::prepare
VoiceReset(v) == [v EXCEPT !.current = v.target, !.countdown = 0]

\* SmoothedValue::setTargetValue
SetTargetValue(v, newValue, steps) ==
    IF newValue = v.target THEN v
    ELSE IF steps <= 0
         THEN [v EXCEPT !.target = newValue, !.current = newValue, !.countdown = 0]
         ELSE [v EXCEPT !.target = newValue, !.countdown = steps,
                        !.step = (newValue - v.current) \div steps]

\* SolaireVoice::updateFromPartial
UpdateFromPartial(v, partial, steps) ==
    [SetTargetValue(v, partial.amplitude, steps) EXCEPT
        !.frequency = partial.frequency, !.isActive = partial.isActive]

\* a plausible slip: the faded voice is never switched off
Deactivate_NeverOff(v, steps) == SetTargetValue(v, 0, steps)

\* SolaireVoice::deactivate
Deactivate(v, steps) ==
    LET w == SetTargetValue(v, 0, steps)
    IN  IF w.current < AMPLITUDE_THRESHOLD THEN [w EXCEPT !.isActive = FALSE] ELSE w

\* SolaireVoice::processSample: an active voice advances its smoother
\* (SmoothedValue::getNextValue); an inactive one returns 0 and advances nothing
VoiceProcessSample(v) ==
    IF ~v.isActive \/ v.countdown <= 0 THEN v
    ELSE IF v.countdown - 1 > 0
         THEN [v EXCEPT !.countdown = @ - 1, !.current = @ + v.step]
         ELSE [v EXCEPT !.countdown = 0, !.current = v.target]

\* the amplitude a voice's sample is scaled by in this call (0 when inactive)
VoiceLevel(v) ==
    IF ~v.isActive THEN 0
    ELSE IF v.countdown <= 0 THEN v.target ELSE VoiceProcessSample(v).current

\* OscillatorBank::processSample on every voice
BankProcessSample(vs) == [i \in 1..Len(vs) |-> VoiceProcessSample(vs[i])]

RECURSIVE SumLevels(_, _)
SumLevels(vs, i) == IF i > Len(vs) THEN 0 ELSE Abs(VoiceLevel(vs[i])) + SumLevels(vs, i + 1)

\* the largest magnitude the sum of the voices' samples can have in this call
\* (every oscillator at 1.0), before the outputGain 1 / NUM_VOICES
BankLevel(vs) == SumLevels(vs, 1)

\* OscillatorBank::updateFromPartials
UpdateFromPartials(vs, partials, maxVoices, steps) ==
    LET clamped == IF maxVoices < 1 THEN 1
                   ELSE IF maxVoices > NUM_VOICES THEN NUM_VOICES ELSE maxVoices
        numPartials == IF Len(partials) < clamped THEN Len(partials) ELSE clamped
    IN  [i \in 1..Len(vs) |->
            IF i <= numPartials
            THEN UpdateFromPartial(vs[i], partials[i], steps)
            ELSE Deactivate(vs[i], steps)]

\* OscillatorBank::getActiveVoiceCount
ActiveVoiceCount(vs) == Cardinality({i \in 1..Len(vs) : vs[i].isActive})

(***************************************************************************)
(* Heap allocations of one frame                                           *)
(***************************************************************************)
\* extractDominantPeaks builds three std::vector on every call: magnitudes
\* (reserve(numBins), line 71), candidatePeaks (reserve(numBins / 4), line 84)
\* and dominantPeaks (reserve(n), line 139); reserve(0) allocates nothing
ExtractionAllocations(bins, nPeaks) ==
    1 + (IF bins \div 4 > 0 THEN 1 ELSE 0) + (IF nPeaks > 0 THEN 1 ELSE 0)

\* auto activeTracks = partialTracker.getActiveTracks() (line 172): the copy of
\* a non-empty vector allocates its buffer, and each copied PartialTrack its
\* two std::deque histories
TrackCopyAllocations(tracks) == IF Len(tracks) = 0 THEN 0 ELSE 1 + 2 * Len(tracks)

(***************************************************************************)
(* The float a setter is called with: a number (in tenths), a NaN or an    *)
(* infinity, with the comparison of IEEE 754                               *)
(***************************************************************************)
Num(k) == [kind |-> "num", v |-> k]
NaN == [kind |-> "nan", v |-> 0]
PosInf == [kind |-> "pinf", v |-> 0]
NegInf == [kind |-> "ninf", v |-> 0]

\* the values the setters are called with: below, inside and above the range,
\* the infinities and a NaN
FloatInputs == { Num(-5), Num(0), Num(3), Num(10), Num(15), NaN, PosInf, NegInf }

\* a < b on floats: false when either side is a NaN
FLess(a, b) ==
    CASE a.kind = "nan" \/ b.kind = "nan" -> FALSE
      [] a.kind = "ninf" -> b.kind # "ninf"
      [] a.kind = "pinf" -> FALSE
      [] b.kind = "ninf" -> FALSE
      [] b.kind = "pinf" -> TRUE
      [] OTHER -> a.v < b.v

\* juce::jlimit(lo, hi, value) on floats:
\* value < lo ? lo : (hi < value ? hi : value)
JlimitF(lo, hi, value) ==
    IF FLess(value, lo) THEN lo ELSE IF FLess(hi, value) THEN hi ELSE value

\* the atomics of the engine as constructed (SolaireEngine.h:130-152), in tenths
DefaultAtomics ==
    [slice |-> Num(1), voice |-> Num(10), freeze |-> Num(0), blur |-> Num(0),
     warp |-> Num(5), feedback |-> Num(0), centerFreq |-> Num(5),
     bandwidth |-> Num(10), freq |-> Num(5), octave |-> Num(5), mix |-> Num(5),
     colour |-> Num(5), float |-> Num(0)]

(***************************************************************************)
(* applySpectralModifiers (PanharmoniumEngine.cpp:214-304) with its         *)
(* parameters.  The parameters are in tenths (0..10); the powers of two    *)
(* and of 1000 are tabulated for them, in thousandths (the centre of the   *)
(* frequency window in tenths of a Hz).                                    *)
(***************************************************************************)
MIN_FREQ == 20
MAX_FREQ == 20000
\* FEEDBACK_DECAY = 0.97f, in hundredths
FEEDBACK_DECAY == 97

\* centerHz = MIN_FREQ * pow(MAX_FREQ / MIN_FREQ, centerFreq), in tenths of a Hz
CenterHz10 == << 200, 399, 796, 1589, 3170, 6325, 12619, 25179, 50238, 100237, 200000 >>
\* sqrt(bandwidthRatio) = 2^((1 + bandwidth * 59) / 24), in thousandths
SqrtBandwidthRatio == << 1029, 1221, 1447, 1716, 2035, 2413, 2861, 3393, 4023, 4771, 5657 >>
\* warpRatio = 2^((warp - 0.5) * 2 * 0.5), in thousandths
WarpRatio == << 707, 758, 812, 871, 933, 1000, 1072, 1149, 1231, 1320, 1414 >>
\* freqRatio = 2^((freqShift - 0.5) * 200 / 1200), in thousandths
FreqRatio == << 944, 955, 966, 977, 989, 1000, 1012, 1023, 1035, 1047, 1059 >>
\* octaveRatio = 2^((octaveShift - 0.5) * 4), in thousandths
OctaveRatio == << 250, 330, 435, 574, 758, 1000, 1320, 1741, 2297, 3031, 4000 >>

\* the parameters applySpectralModifiers loads (lines 220-229), as plain tenths
ModifierParams(a) ==
    [blur |-> a.blur.v, feedback |-> a.feedback.v, warp |-> a.warp.v,
     centerFreq |-> a.centerFreq.v, bandwidth |-> a.bandwidth.v,
     freq |-> a.freq.v, octave |-> a.octave.v]

\* track.frequency < minFreq, with minFreq = centerHz / sqrt(bandwidthRatio)
BelowWindow(frequency, p) ==
    frequency * SqrtBandwidthRatio[p.bandwidth + 1] < CenterHz10[p.centerFreq + 1] * 100

\* track.frequency > maxFreq, with maxFreq = centerHz * sqrt(bandwidthRatio)
AboveWindow(frequency, p) ==
    frequency * 10000 > CenterHz10[p.centerFreq + 1] * SqrtBandwidthRatio[p.bandwidth + 1]

\* a plausible slip: only the lower edge of the window is tested
OutsideWindow_LowerEdgeOnly(frequency, p) == BelowWindow(frequency, p)

\* the window test of line 262
OutsideWindow(frequency, p) == BelowWindow(frequency, p) \/ AboveWindow(frequency, p)

\* the per-track maps (std::unordered_map<int, float>): operator[] yields 0 for
\* a key that is not there
EmptyMap == [k \in {} |-> 0]
MapGet(m, key) == IF key \in DOMAIN m THEN m[key] ELSE 0
MapPut(m, key, value) ==
    [k \in (DOMAIN m) \cup {key} |-> IF k = key THEN value ELSE m[k]]

\* BLUR (lines 270-275): amplitude = blur * prevAmp + (1 - blur) * amplitude
Blurred(amplitude, prevAmp, p) ==
    IF p.blur > 0
    THEN (p.blur * prevAmp + (PARAM_MAX - p.blur) * amplitude) \div PARAM_MAX
    ELSE amplitude

\* FEEDBACK (lines 279-285): the stored amplitude decays by 0.97 and is mixed in
FedBack(amplitude, stored, p) ==
    IF p.feedback > 0
    THEN (amplitude * (PARAM_MAX - p.feedback)
            + ((stored * FEEDBACK_DECAY) \div 100) * p.feedback) \div PARAM_MAX
    ELSE amplitude

\* a plausible slip: octaves = octaveShift * 4, the offset 0.5 forgotten, which
\* is two octaves (a factor 4) more than octaveRatio
Transposed_OctaveUncentred(frequency, p) ==
    LET warped == IF p.warp # 5 THEN (frequency * WarpRatio[p.warp + 1]) \div 1000
                  ELSE frequency
    IN  (warped * ((FreqRatio[p.freq + 1] * OctaveRatio[p.octave + 1]) \div 1000))
           \div 250

\* WARP (lines 289-294), then FREQ and OCTAVE (line 298)
Transposed(frequency, p) ==
    LET warped == IF p.warp # 5 THEN (frequency * WarpRatio[p.warp + 1]) \div 1000
                  ELSE frequency
    IN  (warped * ((FreqRatio[p.freq + 1] * OctaveRatio[p.octave + 1]) \div 1000))
           \div 1000

\* the loop of applySpectralModifiers (lines 252-303) from track i on
RECURSIVE ModifyFrom(_, _, _, _, _)
ModifyFrom(i, tracks, p, prevAmps, fbAmps) ==
    IF i > Len(tracks)
    THEN [tracks |-> tracks, prevPartialAmplitudes |-> prevAmps,
          feedbackAmplitudes |-> fbAmps]
    ELSE IF ~tracks[i].isActive
    THEN ModifyFrom(i + 1, tracks, p, prevAmps, fbAmps)
    ELSE IF OutsideWindow(tracks[i].frequency, p)
    THEN ModifyFrom(i + 1, [tracks EXCEPT ![i].isActive = FALSE], p, prevAmps, fbAmps)
    ELSE LET id == tracks[i].trackID
             amp == FedBack(Blurred(tracks[i].amplitude, MapGet(prevAmps, id), p),
                            MapGet(fbAmps, id), p)
         IN  ModifyFrom(i + 1,
                        [tracks EXCEPT ![i].amplitude = amp,
                                       ![i].frequency = Transposed(@, p)],
                        p, MapPut(prevAmps, id, amp), MapPut(fbAmps, id, amp))

\* applySpectralModifiers(tracks): the modified tracks and the two maps
ApplyModifiers(tracks, p, prevAmps, fbAmps) == ModifyFrom(1, tracks, p, prevAmps, fbAmps)

\* a plausible slip: auto& for auto binds the tracker's own vector
TrackerTracksAfter_Shared(own, modified) == modified

\* auto activeTracks = partialTracker.getActiveTracks() (line 172) is a copy:
\* the tracker keeps its own tracks whatever the modifiers do to the copy
TrackerTracksAfter(own, modified) == own

(***************************************************************************)
(* State                                                                   *)
(***************************************************************************)
VARIABLES
    \* PartialTrackingEngine
    activeTracks, nextTrackID, matchedPeakIndices,
    \* PanharmoniumEngine
    currentPeaks, sampleRate, fftOrder, fftSize, numBins, hopSize,
    inputFifo, dryBuffer, fifoPos, hopCount, dryBufferPos,
    currentSlice, processingLock,
    \* the thread that calls prepareToPlay / releaseResources / setSlice: its
    \* position, prepareToPlay's argument and setSlice's locals
    pcC, newSampleRate, ctlRateRead, ctlNewOrder,
    \* the audio thread (processBlock): its position and setSlice's locals
    pcA, rateRead, newOrder,
    \* the host has completed a first prepareToPlay (it calls processBlock only then)
    hostPrepared,
    \* the per-bin vectors (prevMagnitude; prevPhase and feedbackMagnitude alike)
    prevMagnitude,
    \* the VOICE and FREEZE parameters, in tenths
    currentVoice, currentFreeze,
    \* OscillatorBank: the voices and their smoothers' stepsToTarget
    voices, stepsToTarget,
    \* the latency the processor last reported to the host (setLatencySamples)
    reportedLatency,
    \* extractDominantPeaks on its own: the magnitude spectrum it is given
    magnitudes,
    \* the parameter setters on their own: the value each atomic holds
    atomics,
    \* the modifier state (SolaireEngine.h:114-115) and the modified copy of the
    \* tracks the last processFrame handed to the oscillator bank
    prevPartialAmplitudes, feedbackAmplitudes, partials,
    \* history variables
    evt, held, given, processed, nCalls, nCtl, nFrames, issuedIds

trackerVars == << activeTracks, nextTrackID, matchedPeakIndices >>
configVars == << sampleRate, fftOrder, fftSize, numBins, hopSize >>
fifoVars == << inputFifo, dryBuffer, fifoPos, hopCount, dryBufferPos, prevMagnitude >>
gateVars == << currentVoice, currentFreeze >>
bankVars == << voices, stepsToTarget >>
sideVars == << magnitudes, atomics >>
modVars == << prevPartialAmplitudes, feedbackAmplitudes, partials >>
restVars == << gateVars, bankVars, reportedLatency, sideVars, modVars >>
ctlLocals == << newSampleRate, ctlRateRead, ctlNewOrder >>
ctlVars == << pcC, ctlLocals, nCtl >>
audioVars == << pcA, rateRead, newOrder >>
logVars == << evt, held, given, processed, nCalls, nFrames, issuedIds >>
vars == << trackerVars, currentPeaks, configVars, fifoVars, currentSlice,
           processingLock, ctlVars, audioVars, hostPrepared, logVars, restVars >>

\* what the last processSample call did.  level is the largest magnitude the
\* bank's sum can have had in the call, active the number of active voices after
\* it, allocs the heap allocations it made, maxVoices the cap of the last frame,
\* zeros the number of consecutive processed samples that were 0 with FREEZE
\* off, frozenFrames the number of consecutive frames skipped by FREEZE.
\* For the tracker driven alone: emptyFrames is the number of consecutive
\* processFrame calls whose peak list was empty, retired the number of tracks
\* the last call erased.  For the frame driven alone: staleMaps tells that,
\* going into the last frame, the blur map held for a track inside the window
\* an amplitude other than the track's own
NoEvent == [kind |-> "none", in |-> 0, out |-> [src |-> "none", v |-> 0],
            frame |-> FALSE, given |-> 0, processed |-> 0, hop |-> 0,
            level |-> 0, active |-> 0, allocs |-> 0, maxVoices |-> 0,
            zeros |-> 0, frozenFrames |-> 0, emptyFrames |-> 0, retired |-> 0,
            staleMaps |-> FALSE]

\* the engine as constructed: the member initialisers of PanharmoniumEngine.h;
\* the vectors are empty until prepareToPlay
Init ==
    /\ activeTracks = << >>
    /\ nextTrackID = 0
    /\ matchedPeakIndices = << >>
    /\ currentPeaks = << >>
    /\ sampleRate = DEFAULT_SAMPLE_RATE
    /\ fftOrder = DEFAULT_ORDER
    /\ fftSize = Pow2(DEFAULT_ORDER)
    /\ numBins = Pow2(DEFAULT_ORDER) \div 2 + 1
    /\ hopSize = Pow2(DEFAULT_ORDER) \div overlap
    /\ inputFifo = << >>
    /\ dryBuffer = << >>
    /\ fifoPos = 0
    /\ hopCount = 0
    /\ dryBufferPos = 0
    /\ currentSlice = DEFAULT_SLICE
    /\ processingLock = "free"
    /\ pcC = "idle"
    /\ newSampleRate = DEFAULT_SAMPLE_RATE
    /\ ctlRateRead = DEFAULT_SAMPLE_RATE
    /\ ctlNewOrder = DEFAULT_ORDER
    /\ pcA = "idle"
    /\ rateRead = DEFAULT_SAMPLE_RATE
    /\ newOrder = DEFAULT_ORDER
    /\ hostPrepared = FALSE
    /\ prevMagnitude = << >>
    /\ currentVoice = DEFAULT_VOICE
    /\ currentFreeze = DEFAULT_FREEZE
    /\ voices = [i \in 1..NUM_VOICES |-> NewVoice]
    /\ stepsToTarget = 0
    /\ reportedLatency = 0
    /\ magnitudes = << >>
    /\ atomics = DefaultAtomics
    /\ prevPartialAmplitudes = EmptyMap
    /\ feedbackAmplitudes = EmptyMap
    /\ partials = << >>
    /\ evt = NoEvent
    /\ held = << >>
    /\ given = 0
    /\ processed = 0
    /\ nCalls = 0
    /\ nCtl = 0
    /\ nFrames = 0
    /\ issuedIds = << >>

(***************************************************************************)
(* The tracker on its own: one action per processFrame call                *)
(***************************************************************************)
\* the ids of the tracks createNewTracks made, in order
IdsOf(tracks) == [i \in 1..Len(tracks) |-> tracks[i].trackID]

\* currentPeaks = ...; partialTracker.processFrame(currentPeaks)
StoreTracker(r, peaks, tracks) ==
    /\ activeTracks' = tracks
    /\ nextTrackID' = r.nextTrackID
    /\ matchedPeakIndices' = r.matchedPeakIndices
    /\ currentPeaks' = peaks
    /\ issuedIds' = issuedIds \o IdsOf(r.bornTracks)
    /\ nFrames' = nFrames + 1

RunTracker(peaks) ==
    LET r == TrackerProcessFrame(activeTracks, nextTrackID, peaks)
    IN  StoreTracker(r, peaks, r.activeTracks)

\* what a processFrame call of the tracker leaves in the log
TrackerEvent(peaks) ==
    LET r == TrackerProcessFrame(activeTracks, nextTrackID, peaks)
    IN  [evt EXCEPT !.kind = "trackerFrame",
                    !.emptyFrames = IF peaks = << >> THEN @ + 1 ELSE 0,
                    !.retired = Len(activeTracks)
                                  - (Len(r.activeTracks) - Len(r.bornTracks))]

TrackerFrame ==
    /\ nFrames < MaxFrames
    /\ \E peaks \in PeakLists : RunTracker(peaks) /\ evt' = TrackerEvent(peaks)
    /\ UNCHANGED << configVars, fifoVars, currentSlice, processingLock, ctlVars,
                    audioVars, hostPrepared, held, given, processed, nCalls >>
    /\ UNCHANGED restVars

TrackerNext == TrackerFrame

SpecTracker == Init /\ [][TrackerNext]_vars

(***************************************************************************)
(* The tracker driven with peaks that lie close together                   *)
(***************************************************************************)
\* peak frequencies within 10% of each other: 100 and 110 are equally far from
\* 105, and 110 is exactly 10% above 100
FinePeakFreqs == {100, 105, 110}
FinePeakMags == {50, 200}
FineWeakPeakFreqs == {105}
MaxFineFrames == 3

FineSpectralPeak ==
    { p \in [frequency : FinePeakFreqs, magnitude : FinePeakMags, phase : PeakPhases] :
        p.magnitude >= AMPLITUDE_THRESHOLD \/ p.frequency \in FineWeakPeakFreqs }

FinePeakLists ==
    UNION { { s \in [1..n -> FineSpectralPeak] : IsPeakList(s) } :
              n \in 0..MaxSpectralPeaks }

TrackerFrameFine ==
    /\ nFrames < MaxFineFrames
    /\ \E peaks \in FinePeakLists : RunTracker(peaks) /\ evt' = TrackerEvent(peaks)
    /\ UNCHANGED << configVars, fifoVars, currentSlice, processingLock, ctlVars,
                    audioVars, hostPrepared, held, given, processed, nCalls >>
    /\ UNCHANGED restVars

NextFine == TrackerFrameFine

SpecFine == Init /\ [][NextFine]_vars

(***************************************************************************)
(* The tracker driven long enough for a track's history to fill up         *)
(***************************************************************************)
\* one peak per frame at most: two peaks that differ in frequency and in
\* magnitude and are close enough for one track to follow both
LongPeaks ==
    { [frequency |-> 100, magnitude |-> 200, phase |-> 0],
      [frequency |-> 105, magnitude |-> 300, phase |-> 0] }
LongPeakLists == { << >> } \cup { << p >> : p \in LongPeaks }
MaxLongFrames == 7

TrackerFrameLong ==
    /\ nFrames < MaxLongFrames
    /\ \E peaks \in LongPeakLists : RunTracker(peaks) /\ evt' = TrackerEvent(peaks)
    /\ UNCHANGED << configVars, fifoVars, currentSlice, processingLock, ctlVars,
                    audioVars, hostPrepared, held, given, processed, nCalls >>
    /\ UNCHANGED restVars

NextLong == TrackerFrameLong

SpecLong == Init /\ [][NextLong]_vars

(***************************************************************************)
(* PanharmoniumEngine: updateFFTSize, reset, processSample, processFrame   *)
(***************************************************************************)
\* updateFFTSize, lines 57-60: the sizes
UpdateSizes(order) ==
    /\ fftOrder' = order
    /\ fftSize' = Pow2(order)
    /\ numBins' = Pow2(order) \div 2 + 1
    /\ hopSize' = Pow2(order) \div overlap

\* updateFFTSize, lines 62-83: the FFT plan and window are rebuilt, the vectors
\* resized to the new fftSize, the positions zeroed
UpdateBuffers ==
    /\ inputFifo' = Resize(inputFifo, fftSize)
    /\ dryBuffer' = Resize(dryBuffer, fftSize)
    /\ fifoPos' = 0
    /\ hopCount' = 0
    /\ dryBufferPos' = 0
    /\ prevMagnitude' = Resize(prevMagnitude, numBins)
    /\ given' = 0
    /\ processed' = 0

\* PanharmoniumEngine::reset: positions and FIFOs; the oscillator bank and the
\* modifier maps are reset too; partialTracker is not touched
Reset ==
    /\ fifoPos' = 0
    /\ hopCount' = 0
    /\ inputFifo' = ZeroFill(inputFifo)
    /\ dryBuffer' = ZeroFill(dryBuffer)
    /\ dryBufferPos' = 0
    /\ prevMagnitude' = ZeroFill(prevMagnitude)
    /\ voices' = [i \in 1..Len(voices) |-> VoiceReset(voices[i])]
    /\ prevPartialAmplitudes' = EmptyMap
    /\ feedbackAmplitudes' = EmptyMap
    /\ given' = 0
    /\ processed' = 0
    /\ UNCHANGED trackerVars

\* the peak lists a frame of the engine may extract
EnginePeakLists ==
    { s \in PeakLists : Len(s) <= 1 /\ \A i \in 1..Len(s) : s[i].magnitude >= AMPLITUDE_THRESHOLD }

\* a plausible slip: the FIFO is copied from its first element, not from fifoPos
Unwrap_FromStart(fifo, pos) == fifo

\* processFrame copies the FIFO from fifoPos on, wrapping (lines 148-158)
Unwrap(fifo, pos) ==
    [k \in 1..Len(fifo) |-> fifo[((pos + k - 1) % Len(fifo)) + 1]]

AllZero(v) == \A i \in 1..Len(v) : v[i] = 0

\* the peak lists extractDominantPeaks can return for a windowed buffer: a
\* buffer of zeros has an all-zero spectrum and no local maximum
ExtractablePeaks(buffer) == IF AllZero(buffer) THEN { << >> } ELSE EnginePeakLists

\* a plausible slip: the bypass returns silence
BypassOutput_Silence(inputSample) == [src |-> "input", v |-> 0]

\* return inputSample (line 114)
BypassOutput(inputSample) == [src |-> "input", v |-> inputSample]

\* the sample processSample returns after applyOutputEffects: the mix of the
\* effected oscillator-bank sample and the dry sample read from dryBuffer
ProcessedOutput(drySample) == [src |-> "mix", v |-> drySample]

\* a plausible slip: the isLocked() test is dropped and the body always runs
TryLockAcquired_Unchecked(lock) == TRUE

\* juce::SpinLock::ScopedTryLockType lock(processingLock); lock.isLocked()
TryLockAcquired(lock) == lock = "free"

\* a plausible slip: > for >=, a frame every hopSize + 1 samples
HopReached_Late(count, hop) == count + 1 > hop

\* hopCount++; if (hopCount >= hopSize) (lines 131-132)
HopReached(count, hop) == count + 1 >= hop

(***************************************************************************)
(* The host's other thread: prepareToPlay and releaseResources             *)
(***************************************************************************)
\* SolaireAudioProcessor::prepareToPlay: the latency is reported from the
\* engine's fftSize as it is now (PluginProcessor.cpp:64), then the engine's
\* prepareToPlay is called with the host's sample rate
CallPrepareToPlay ==
    /\ pcC = "idle"
    /\ nCtl < MaxCtlCalls
    /\ \E rate \in SampleRates : newSampleRate' = rate
    /\ pcC' = "prep_lock"
    /\ nCtl' = nCtl + 1
    /\ reportedLatency' = fftSize
    /\ UNCHANGED << trackerVars, currentPeaks, configVars, fifoVars, currentSlice,
                    processingLock, ctlRateRead, ctlNewOrder, audioVars,
                    hostPrepared, evt, held, given, processed, nCalls, nFrames,
                    issuedIds, gateVars, bankVars, sideVars, modVars >>

\* const juce::SpinLock::ScopedLockType lock(processingLock) (line 13)
PrepareLock ==
    /\ pcC = "prep_lock"
    /\ processingLock = "free"
    /\ processingLock' = "control"
    /\ pcC' = "prep_rate"
    /\ UNCHANGED << trackerVars, currentPeaks, configVars, fifoVars, currentSlice,
                    ctlLocals, nCtl, audioVars, hostPrepared, logVars >>
    /\ UNCHANGED restVars

\* sampleRate = newSampleRate (line 15)
PrepareSetRate ==
    /\ pcC = "prep_rate"
    /\ sampleRate' = newSampleRate
    /\ pcC' = "prep_sizes"
    /\ UNCHANGED << trackerVars, currentPeaks, fftOrder, fftSize, numBins, hopSize,
                    fifoVars, currentSlice, processingLock, ctlLocals, nCtl,
                    audioVars, hostPrepared, logVars >>
    /\ UNCHANGED restVars

\* updateFFTSize(fftOrder) (line 19), first half
PrepareSizes ==
    /\ pcC = "prep_sizes"
    /\ UpdateSizes(fftOrder)
    /\ pcC' = "prep_buffers"
    /\ UNCHANGED << trackerVars, currentPeaks, sampleRate, fifoVars, currentSlice,
                    processingLock, ctlLocals, nCtl, audioVars, hostPrepared,
                    logVars >>
    /\ UNCHANGED restVars

\* updateFFTSize(fftOrder), second half
PrepareBuffers ==
    /\ pcC = "prep_buffers"
    /\ UpdateBuffers
    /\ pcC' = "prep_reset"
    /\ UNCHANGED << trackerVars, currentPeaks, configVars, currentSlice,
                    processingLock, ctlLocals, nCtl, audioVars, hostPrepared,
                    evt, held, nCalls, nFrames, issuedIds >>
    /\ UNCHANGED restVars

\* oscillatorBank.prepare(spec) (line 29), reset() (line 41) and the end of the
\* lock's scope
PrepareReset ==
    /\ pcC = "prep_reset"
    /\ Reset
    /\ stepsToTarget' = StepsToTarget(sampleRate)
    /\ processingLock' = "free"
    /\ pcC' = "idle"
    /\ hostPrepared' = TRUE
    /\ held' = << >>
    /\ UNCHANGED << currentPeaks, configVars, currentSlice, ctlLocals, nCtl,
                    audioVars, evt, nCalls, nFrames, issuedIds, gateVars,
                    reportedLatency, sideVars, partials >>

CallReleaseResources ==
    /\ pcC = "idle"
    /\ hostPrepared
    /\ nCtl < MaxCtlCalls
    /\ pcC' = "rel_lock"
    /\ nCtl' = nCtl + 1
    /\ UNCHANGED << trackerVars, currentPeaks, configVars, fifoVars, currentSlice,
                    processingLock, ctlLocals, audioVars, hostPrepared, evt,
                    held, given, processed, nCalls, nFrames, issuedIds >>
    /\ UNCHANGED restVars

\* releaseResources: the guard is taken (line 46) ...
ReleaseLock ==
    /\ pcC = "rel_lock"
    /\ processingLock = "free"
    /\ processingLock' = "control"
    /\ pcC' = "rel_held"
    /\ UNCHANGED << trackerVars, currentPeaks, configVars, fifoVars, currentSlice,
                    ctlLocals, nCtl, audioVars, hostPrepared, logVars >>
    /\ UNCHANGED restVars

\* ... and released at the end of the scope; nothing else is done
ReleaseUnlock ==
    /\ pcC = "rel_held"
    /\ processingLock' = "free"
    /\ pcC' = "idle"
    /\ held' = << >>
    /\ UNCHANGED << trackerVars, currentPeaks, configVars, fifoVars, currentSlice,
                    ctlLocals, nCtl, audioVars, hostPrepared, evt, given,
                    processed, nCalls, nFrames, issuedIds >>
    /\ UNCHANGED restVars

\* setSlice called on this thread, lines 355-363: clamp and store, read sampleRate
CallSetSlice ==
    /\ pcC = "idle"
    /\ nCtl < MaxCtlCalls
    /\ \E value \in SliceInputs : currentSlice' = Jlimit(PARAM_MIN, PARAM_MAX, value)
    /\ ctlRateRead' = sampleRate
    /\ pcC' = "cslice_order"
    /\ nCtl' = nCtl + 1
    /\ UNCHANGED << trackerVars, currentPeaks, configVars, fifoVars, processingLock,
                    newSampleRate, ctlNewOrder, audioVars, hostPrepared, logVars >>
    /\ UNCHANGED restVars

\* setSlice, lines 367-371: the new order, compared with fftOrder
CtlSetSliceCompare ==
    /\ pcC = "cslice_order"
    /\ ctlNewOrder' = SliceOrder(currentSlice, ctlRateRead)
    /\ pcC' = IF ctlNewOrder' # fftOrder THEN "cslice_lock" ELSE "idle"
    /\ UNCHANGED << trackerVars, currentPeaks, configVars, fifoVars, currentSlice,
                    processingLock, newSampleRate, ctlRateRead, nCtl, audioVars,
                    hostPrepared, logVars >>
    /\ UNCHANGED restVars

\* const juce::SpinLock::ScopedLockType lock(processingLock) (line 373)
CtlSetSliceLock ==
    /\ pcC = "cslice_lock"
    /\ processingLock = "free"
    /\ processingLock' = "control"
    /\ pcC' = "cslice_sizes"
    /\ UNCHANGED << trackerVars, currentPeaks, configVars, fifoVars, currentSlice,
                    ctlLocals, nCtl, audioVars, hostPrepared, logVars >>
    /\ UNCHANGED restVars

\* updateFFTSize(newOrder) (line 374), first half
CtlSetSliceSizes ==
    /\ pcC = "cslice_sizes"
    /\ UpdateSizes(ctlNewOrder)
    /\ pcC' = "cslice_buffers"
    /\ UNCHANGED << trackerVars, currentPeaks, sampleRate, fifoVars, currentSlice,
                    processingLock, ctlLocals, nCtl, audioVars, hostPrepared,
                    logVars >>
    /\ UNCHANGED restVars

\* updateFFTSize(newOrder), second half, and the end of the lock's scope
CtlSetSliceBuffers ==
    /\ pcC = "cslice_buffers"
    /\ UpdateBuffers
    /\ processingLock' = "free"
    /\ pcC' = "idle"
    /\ held' = << >>
    /\ UNCHANGED << trackerVars, currentPeaks, configVars, currentSlice, ctlLocals,
                    nCtl, audioVars, hostPrepared, evt, nCalls, nFrames,
                    issuedIds >>
    /\ UNCHANGED restVars

(***************************************************************************)
(* The audio thread: one processBlock iteration is setSlice(time), then    *)
(* processSample(input).  The n-th sample handed to processSample has the  *)
(* value n, so that every input is recognisable in the FIFOs and outputs.  *)
(***************************************************************************)
\* setSlice, lines 355-363: clamp and store the value, read sampleRate.  The
\* setVoice(voices) that processBlock calls after setSlice (PluginProcessor.cpp
\* line 140) is a store that only this thread's processFrame reads; it is taken
\* here
SetSliceStore ==
    /\ pcA = "idle"
    /\ hostPrepared
    /\ nCalls < MaxSamples
    /\ \E value \in SliceInputs : currentSlice' = Jlimit(PARAM_MIN, PARAM_MAX, value)
    /\ \E value \in HostVoiceInputs : currentVoice' = Jlimit(PARAM_MIN, PARAM_MAX, value)
    /\ rateRead' = sampleRate
    /\ pcA' = "slice_order"
    /\ UNCHANGED << trackerVars, currentPeaks, configVars, fifoVars, processingLock,
                    ctlVars, newOrder, hostPrepared, logVars, currentFreeze,
                    bankVars, reportedLatency, sideVars, modVars >>

\* setSlice, lines 367-371: the new order, compared with fftOrder
SetSliceCompare ==
    /\ pcA = "slice_order"
    /\ newOrder' = SliceOrder(currentSlice, rateRead)
    /\ pcA' = IF newOrder' # fftOrder THEN "slice_lock" ELSE "call"
    /\ UNCHANGED << trackerVars, currentPeaks, configVars, fifoVars, currentSlice,
                    processingLock, ctlVars, rateRead, hostPrepared, logVars >>
    /\ UNCHANGED restVars

\* const juce::SpinLock::ScopedLockType lock(processingLock) (line 373): spins
\* until the guard is free
SetSliceLock ==
    /\ pcA = "slice_lock"
    /\ processingLock = "free"
    /\ processingLock' = "audio"
    /\ pcA' = "slice_sizes"
    /\ UNCHANGED << trackerVars, currentPeaks, configVars, fifoVars, currentSlice,
                    ctlVars, rateRead, newOrder, hostPrepared, logVars >>
    /\ UNCHANGED restVars

\* updateFFTSize(newOrder) (line 374), first half
SetSliceSizes ==
    /\ pcA = "slice_sizes"
    /\ UpdateSizes(newOrder)
    /\ pcA' = "slice_buffers"
    /\ UNCHANGED << trackerVars, currentPeaks, sampleRate, fifoVars, currentSlice,
                    processingLock, ctlVars, rateRead, newOrder, hostPrepared,
                    logVars >>
    /\ UNCHANGED restVars

\* updateFFTSize(newOrder), second half, and the end of the lock's scope
SetSliceBuffers ==
    /\ pcA = "slice_buffers"
    /\ UpdateBuffers
    /\ processingLock' = "free"
    /\ pcA' = "call"
    /\ UNCHANGED << trackerVars, currentPeaks, configVars, currentSlice, ctlVars,
                    rateRead, newOrder, hostPrepared, evt, held, nCalls, nFrames,
                    issuedIds >>
    /\ UNCHANGED restVars

\* the sample this call of processSample is given
InputSample == nCalls + 1

\* a plausible slip: the sample is stored before the try-lock is tested
BypassedFifo_Stored(fifo, pos, inputSample) ==
    IF pos < Len(fifo) THEN [fifo EXCEPT ![pos + 1] = inputSample] ELSE fifo

\* the input FIFO after a call that returns at line 114: the store of line 117
\* is not reached
BypassedFifo(fifo, pos, inputSample) == fifo

\* processSample, lines 112-114: the try-lock fails, the input is returned
ProcessSampleBypass ==
    /\ pcA = "call"
    /\ ~TryLockAcquired(processingLock)
    /\ evt' = [evt EXCEPT !.kind = "bypass", !.in = InputSample,
                           !.out = BypassOutput(InputSample), !.frame = FALSE,
                           !.given = given + 1, !.processed = processed,
                           !.hop = hopSize, !.level = 0, !.allocs = 0]
    /\ held' = Append(held, [in |-> InputSample, out |-> BypassOutput(InputSample)])
    /\ given' = given + 1
    /\ nCalls' = nCalls + 1
    /\ pcA' = "idle"
    /\ inputFifo' = BypassedFifo(inputFifo, fifoPos, InputSample)
    /\ UNCHANGED << trackerVars, currentPeaks, configVars, dryBuffer, fifoPos,
                    hopCount, dryBufferPos, prevMagnitude, currentSlice,
                    processingLock, ctlVars, rateRead, newOrder, hostPrepared,
                    processed, nFrames, issuedIds >>
    /\ UNCHANGED restVars

\* processSample, line 112: the try-lock succeeds
ProcessSampleAcquire ==
    /\ pcA = "call"
    /\ TryLockAcquired(processingLock)
    /\ processingLock' = "audio"
    /\ pcA' = "body"
    /\ UNCHANGED << trackerVars, currentPeaks, configVars, fifoVars, currentSlice,
                    ctlVars, rateRead, newOrder, hostPrepared, logVars >>
    /\ UNCHANGED restVars

\* spectralManipulation (lines 186-212): unless FREEZE is on, the peaks of the
\* unwrapped FIFO replace currentPeaks and go to the tracker
SpectralManipulation ==
    IF IsFrozen(currentFreeze)
    THEN /\ nFrames' = nFrames + 1
         /\ UNCHANGED << trackerVars, currentPeaks, issuedIds >>
    ELSE \E peaks \in ExtractablePeaks(Unwrap(inputFifo', fifoPos')) : RunTracker(peaks)

\* the heap allocations of one processFrame
FrameAllocations ==
    (IF IsFrozen(currentFreeze) THEN 0
     ELSE ExtractionAllocations(numBins, Len(currentPeaks')))
    + TrackCopyAllocations(activeTracks')

\* processFrame (lines 144-184): spectralManipulation, then the copy of the
\* active tracks goes through the modifiers to the oscillator bank; sounding
\* is the bank after this call's oscillatorBank.processSample()
ProcessFrame(sounding) ==
    /\ SpectralManipulation
    /\ \E m \in { ApplyModifiers(activeTracks', ModifierParams(atomics),
                                  prevPartialAmplitudes, feedbackAmplitudes) } :
          /\ partials' = m.tracks
          /\ prevPartialAmplitudes' = m.prevPartialAmplitudes
          /\ feedbackAmplitudes' = m.feedbackAmplitudes
          /\ voices' = UpdateFromPartials(sounding, m.tracks,
                                          MaxVoicesOf(currentVoice), stepsToTarget)

\* the body of processSample (lines 116-141) on one input sample
ProcessSampleCore(inputSample) ==
    /\ inputFifo' = [inputFifo EXCEPT ![fifoPos + 1] = inputSample]
    /\ dryBuffer' = [dryBuffer EXCEPT ![dryBufferPos + 1] = inputSample]
    /\ dryBufferPos' = (dryBufferPos + 1) % fftSize
    /\ fifoPos' = (fifoPos + 1) % fftSize
    /\ IF HopReached(hopCount, hopSize)
       THEN /\ hopCount' = 0
            /\ ProcessFrame(BankProcessSample(voices))
       ELSE /\ hopCount' = hopCount + 1
            /\ voices' = BankProcessSample(voices)
            /\ UNCHANGED << trackerVars, currentPeaks, nFrames, issuedIds, modVars >>
    /\ evt' = [kind |-> "processed", in |-> inputSample,
               out |-> ProcessedOutput(dryBuffer'[dryBufferPos' + 1]),
               frame |-> HopReached(hopCount, hopSize),
               given |-> given + 1, processed |-> processed + 1, hop |-> hopSize,
               level |-> BankLevel(voices),
               active |-> ActiveVoiceCount(voices'),
               allocs |-> IF HopReached(hopCount, hopSize) THEN FrameAllocations ELSE 0,
               maxVoices |-> IF HopReached(hopCount, hopSize)
                             THEN MaxVoicesOf(currentVoice) ELSE evt.maxVoices,
               zeros |-> IF inputSample = 0 /\ ~IsFrozen(currentFreeze)
                         THEN evt.zeros + 1 ELSE 0,
               frozenFrames |-> IF ~HopReached(hopCount, hopSize) THEN evt.frozenFrames
                                ELSE IF IsFrozen(currentFreeze)
                                     THEN evt.frozenFrames + 1 ELSE 0,
               emptyFrames |-> evt.emptyFrames, retired |-> evt.retired,
               staleMaps |-> evt.staleMaps]
    /\ given' = given + 1
    /\ processed' = processed + 1
    /\ nCalls' = nCalls + 1
    /\ UNCHANGED << configVars, prevMagnitude, currentSlice, hostPrepared,
                    gateVars, stepsToTarget, reportedLatency, sideVars >>

\* processSample, lines 116-141, and the end of the lock's scope
ProcessSampleBody ==
    /\ pcA = "body"
    /\ ProcessSampleCore(InputSample)
    /\ processingLock' = "free"
    /\ pcA' = "idle"
    /\ UNCHANGED << ctlVars, rateRead, newOrder, held >>

Next ==
    \/ CallPrepareToPlay
    \/ PrepareLock
    \/ PrepareSetRate
    \/ PrepareSizes
    \/ PrepareBuffers
    \/ PrepareReset
    \/ CallReleaseResources
    \/ ReleaseLock
    \/ ReleaseUnlock
    \/ CallSetSlice
    \/ CtlSetSliceCompare
    \/ CtlSetSliceLock
    \/ CtlSetSliceSizes
    \/ CtlSetSliceBuffers
    \/ SetSliceStore
    \/ SetSliceCompare
    \/ SetSliceLock
    \/ SetSliceSizes
    \/ SetSliceBuffers
    \/ ProcessSampleBypass
    \/ ProcessSampleAcquire
    \/ ProcessSampleBody

Spec == Init /\ [][Next]_vars

(***************************************************************************)
(* processSample on an engine whose prepareToPlay has not completed.  The  *)
(* constructor is empty (lines 3-7) and processSample tests nothing but    *)
(* the try-lock (lines 112-114): with the guard free the body runs on      *)
(* empty vectors, and inputFifo[fifoPos] = inputSample (line 117) writes   *)
(* outside the vector.  That is undefined behaviour: the call either ends  *)
(* the process or returns some value with memory overwritten.              *)
(***************************************************************************)
\* the values such a call may return
UndefinedReturns(inputSample) == {inputSample, 0}

\* what the out-of-bounds write can lead to
UndefinedOutcomes(inputSample) ==
    { [kind |-> "crash", out |-> [src |-> "none", v |-> 0]] }
    \cup { [kind |-> "undefined", out |-> [src |-> "undefined", v |-> x]] :
            x \in UndefinedReturns(inputSample) }

ColdProcessSample ==
    /\ pcA = "idle"
    /\ ~hostPrepared
    /\ pcC # "crashed"
    /\ nCalls < MaxSamples
    /\ nCalls' = nCalls + 1
    /\ IF TryLockAcquired(processingLock)
       THEN /\ \E outcome \in UndefinedOutcomes(InputSample) :
                  /\ evt' = [evt EXCEPT !.kind = outcome.kind, !.in = InputSample,
                                        !.out = outcome.out, !.frame = FALSE]
                  /\ pcA' = IF outcome.kind = "crash" THEN "crashed" ELSE pcA
                  /\ pcC' = IF outcome.kind = "crash" THEN "crashed" ELSE pcC
            /\ UNCHANGED << held, given >>
       ELSE /\ evt' = [evt EXCEPT !.kind = "bypass", !.in = InputSample,
                                  !.out = BypassOutput(InputSample), !.frame = FALSE,
                                  !.given = given + 1, !.processed = processed,
                                  !.hop = hopSize, !.level = 0, !.allocs = 0]
            /\ held' = Append(held, [in |-> InputSample, out |-> BypassOutput(InputSample)])
            /\ given' = given + 1
            /\ UNCHANGED << pcA, pcC >>
    /\ UNCHANGED << trackerVars, currentPeaks, configVars, fifoVars, currentSlice,
                    processingLock, ctlLocals, nCtl, rateRead, newOrder,
                    hostPrepared, processed, nFrames, issuedIds, restVars >>

NextCold == Next \/ ColdProcessSample

SpecCold == Init /\ [][NextCold]_vars

(***************************************************************************)
(* The processing pipeline on its own: a prepared engine driven by one     *)
(* thread, which calls processSample with loud or silent samples and the   *)
(* VOICE and FREEZE setters in between.  With one thread the try-lock      *)
(* always succeeds.                                                        *)
(***************************************************************************)
\* number of processSample calls of a pipeline behaviour
MaxPipeSamples == 24
\* only the first MaxLoudSamples samples may be non-zero
MaxLoudSamples == 2
\* number of setter calls of a pipeline behaviour
MaxParamCalls == 1
\* a non-zero input sample
LOUD == 1
PipeInputs == {0, LOUD}

\* the engine after the constructor and one prepareToPlay(rate, ...)
InitPipeline ==
    /\ activeTracks = << >>
    /\ nextTrackID = 0
    /\ matchedPeakIndices = << >>
    /\ currentPeaks = << >>
    /\ sampleRate \in SampleRates
    /\ fftOrder = DEFAULT_ORDER
    /\ fftSize = Pow2(DEFAULT_ORDER)
    /\ numBins = Pow2(DEFAULT_ORDER) \div 2 + 1
    /\ hopSize = Pow2(DEFAULT_ORDER) \div overlap
    /\ inputFifo = [i \in 1..Pow2(DEFAULT_ORDER) |-> 0]
    /\ dryBuffer = [i \in 1..Pow2(DEFAULT_ORDER) |-> 0]
    /\ fifoPos = 0
    /\ hopCount = 0
    /\ dryBufferPos = 0
    /\ currentSlice = DEFAULT_SLICE
    /\ processingLock = "free"
    /\ pcC = "idle"
    /\ newSampleRate = sampleRate
    /\ ctlRateRead = DEFAULT_SAMPLE_RATE
    /\ ctlNewOrder = DEFAULT_ORDER
    /\ pcA = "idle"
    /\ rateRead = DEFAULT_SAMPLE_RATE
    /\ newOrder = DEFAULT_ORDER
    /\ hostPrepared = TRUE
    /\ prevMagnitude = [i \in 1..(Pow2(DEFAULT_ORDER) \div 2 + 1) |-> 0]
    /\ currentVoice = DEFAULT_VOICE
    /\ currentFreeze = DEFAULT_FREEZE
    /\ voices = [i \in 1..NUM_VOICES |-> NewVoice]
    /\ stepsToTarget = StepsToTarget(sampleRate)
    /\ reportedLatency = Pow2(DEFAULT_ORDER)
    /\ magnitudes = << >>
    /\ atomics = DefaultAtomics
    /\ prevPartialAmplitudes = EmptyMap
    /\ feedbackAmplitudes = EmptyMap
    /\ partials = << >>
    /\ evt = NoEvent
    /\ held = << >>
    /\ given = 0
    /\ processed = 0
    /\ nCalls = 0
    /\ nCtl = 0
    /\ nFrames = 0
    /\ issuedIds = << >>

\* processSample(inputSample): the try-lock is taken, the body runs, the lock
\* is released
PipeProcessSample ==
    /\ nCalls < MaxPipeSamples
    /\ \E inputSample \in PipeInputs :
          /\ inputSample # 0 => nCalls < MaxLoudSamples
          /\ ProcessSampleCore(inputSample)
    /\ UNCHANGED << processingLock, ctlVars, audioVars, held >>

\* setVoice (lines 413-418)
PipeSetVoice ==
    /\ nCtl < MaxParamCalls
    /\ \E value \in VoiceInputs : currentVoice' = Jlimit(PARAM_MIN, PARAM_MAX, value)
    /\ nCtl' = nCtl + 1
    /\ UNCHANGED << trackerVars, currentPeaks, configVars, fifoVars, currentSlice,
                    processingLock, pcC, ctlLocals, audioVars, hostPrepared,
                    logVars, currentFreeze, bankVars, reportedLatency, sideVars,
                    modVars >>

\* setFreeze (lines 420-425)
PipeSetFreeze ==
    /\ nCtl < MaxParamCalls
    /\ \E value \in FreezeInputs : currentFreeze' = Jlimit(PARAM_MIN, PARAM_MAX, value)
    /\ nCtl' = nCtl + 1
    /\ UNCHANGED << trackerVars, currentPeaks, configVars, fifoVars, currentSlice,
                    processingLock, pcC, ctlLocals, audioVars, hostPrepared,
                    logVars, currentVoice, bankVars, reportedLatency, sideVars,
                    modVars >>

NextPipeline ==
    \/ PipeProcessSample
    \/ PipeSetVoice
    \/ PipeSetFreeze

SpecPipeline == InitPipeline /\ [][NextPipeline]_vars

(***************************************************************************)
(* extractDominantPeaks on its own (SpectralPeakExtraction.h): one action  *)
(* per call, on a magnitude spectrum of numBins small integers.  The       *)
(* interpolated values are rationals; they are kept exact by scaling.      *)
(***************************************************************************)
\* the largest magnitude of a bin
MaxBinMagnitude == 2
BinMagnitudes == 0..MaxBinMagnitude
\* interpolated magnitudes are counted in units of 1 / MAG_SCALE; 4 * denominator
\* divides MAG_SCALE for every denominator that bins up to 3 can give
MAG_SCALE == 480

\* delta = (y_minus1 - y_plus1) / denominator, clamped to [-0.5, 0.5]
\* (lines 99-107), as a fraction num / den with den > 0; 0 when denominator is 0
PeakDelta(ym, y0, yp) ==
    LET denominator == 2 * (2 * y0 - yp - ym)
        num == IF denominator < 0 THEN yp - ym ELSE ym - yp
        den == IF denominator < 0 THEN 0 - denominator ELSE denominator
    IN  IF denominator = 0 THEN [num |-> 0, den |-> 1]
        ELSE IF 2 * num > den THEN [num |-> 1, den |-> 2]
        ELSE IF 2 * num < 0 - den THEN [num |-> -1, den |-> 2]
        ELSE [num |-> num, den |-> den]

\* the candidate peak at bin i (0-based), lines 91-123: frequency in whole Hz,
\* magnitude y0 - 0.25 * (y_minus1 - y_plus1) * delta in units of 1 / MAG_SCALE
CandidatePeak(mags, i, rate, size) ==
    LET ym == mags[i]
        y0 == mags[i + 1]
        yp == mags[i + 2]
        delta == PeakDelta(ym, y0, yp)
    IN  [frequency |-> ((i * delta.den + delta.num) * rate) \div (delta.den * size),
         magnitude |-> MAG_SCALE * y0
                       - (MAG_SCALE * (ym - yp) * delta.num) \div (4 * delta.den),
         phase |-> 0,
         binIndex |-> i]

\* the local maxima in ascending bin order (lines 86-125): bins 1 .. numBins - 2,
\* strictly greater than both neighbours
RECURSIVE CandidatesFrom(_, _, _, _)
CandidatesFrom(mags, i, rate, size) ==
    IF i > Len(mags) - 2 THEN << >>
    ELSE IF mags[i + 1] > mags[i] /\ mags[i + 1] > mags[i + 2]
         THEN << CandidatePeak(mags, i, rate, size) >>
              \o CandidatesFrom(mags, i + 1, rate, size)
         ELSE CandidatesFrom(mags, i + 1, rate, size)

CandidatePeaks(mags, rate, size) == CandidatesFrom(mags, 1, rate, size)

\* std::sort with the comparator a.magnitude > b.magnitude (lines 129-132): any
\* arrangement of the candidates in which no peak comes before a larger one;
\* the order of peaks of equal magnitude is unspecified
SortOutcomes(c) ==
    { [k \in 1..Len(c) |-> c[f[k]]] :
        f \in { g \in [1..Len(c) -> 1..Len(c)] :
                  /\ \A a, b \in 1..Len(c) : a # b => g[a] # g[b]
                  /\ \A k \in 1..(Len(c) - 1) : c[g[k]].magnitude >= c[g[k + 1]].magnitude } }

\* the first min(maxPeaks, size) peaks (lines 136-144)
TopPeaks(sorted, maxPeaks) ==
    SubSeq(sorted, 1, IF maxPeaks < Len(sorted) THEN maxPeaks ELSE Len(sorted))

\* currentPeaks = extractDominantPeaks(fftData, numBins, maxSpectralPeaks,
\* sampleRate, fftSize)
ExtractDominantPeaks ==
    /\ \E spectrum \in [1..numBins -> BinMagnitudes] :
          /\ magnitudes' = spectrum
          /\ \E sorted \in SortOutcomes(CandidatePeaks(spectrum, sampleRate, fftSize)) :
                currentPeaks' = TopPeaks(sorted, MaxSpectralPeaks)
    /\ UNCHANGED << trackerVars, configVars, fifoVars, currentSlice, processingLock,
                    ctlVars, audioVars, hostPrepared, logVars, gateVars, bankVars,
                    reportedLatency, atomics, modVars >>

NextPeaks == ExtractDominantPeaks

SpecPeaks == Init /\ [][NextPeaks]_vars

(***************************************************************************)
(* The parameter setters on their own (PanharmoniumEngine.cpp:351-454),    *)
(* each called with any float.  The value an atomic holds is kept in       *)
(* atomics, as a float; currentVoice and currentFreeze, the whole tenths   *)
(* a frame reads, play no part here.                                       *)
(***************************************************************************)
\* number of setter calls of one behaviour
MaxSetterCalls == 2
\* the limits 0.0f and 1.0f
F_ZERO == Num(PARAM_MIN)
F_ONE == Num(PARAM_MAX)

\* currentX.store(juce::jlimit(0.0f, 1.0f, value)); the event keeps the
\* argument and the value stored
StoreClamped(name, value) ==
    /\ nCtl < MaxSetterCalls
    /\ nCtl' = nCtl + 1
    /\ atomics' = [atomics EXCEPT ![name] = JlimitF(F_ZERO, F_ONE, value)]
    /\ evt' = [evt EXCEPT !.kind = "setter", !.in = value,
                          !.out = JlimitF(F_ZERO, F_ONE, value)]
    /\ UNCHANGED << trackerVars, currentPeaks, processingLock, pcC, ctlLocals,
                    audioVars, hostPrepared, held, nCalls, nFrames, issuedIds,
                    gateVars, bankVars, reportedLatency, magnitudes, modVars >>

\* the order setSlice computes (lines 360-368).  For a NaN the float chain
\* pow, log2, round yields a NaN and its cast to int is undefined: the order
\* is whatever jlimit(7, 14, ...) makes of the outcome
SliceOrdersOf(stored, rate) ==
    IF stored.kind = "num" THEN { SliceOrder(stored.v, rate) } ELSE MIN_ORDER..MAX_ORDER

\* setSlice (lines 351-376): the store, then the reconfiguration when the
\* order changes
SetSliceAny ==
    /\ \E value \in FloatInputs :
          /\ StoreClamped("slice", value)
          /\ currentSlice' = IF atomics'.slice.kind = "num" THEN atomics'.slice.v
                             ELSE currentSlice
          /\ \E order \in SliceOrdersOf(atomics'.slice, sampleRate) :
                IF order # fftOrder
                THEN /\ UpdateSizes(order)
                     /\ inputFifo' = Resize(inputFifo, Pow2(order))
                     /\ dryBuffer' = Resize(dryBuffer, Pow2(order))
                     /\ prevMagnitude' = Resize(prevMagnitude, Pow2(order) \div 2 + 1)
                     /\ fifoPos' = 0
                     /\ hopCount' = 0
                     /\ dryBufferPos' = 0
                     /\ given' = 0
                     /\ processed' = 0
                ELSE UNCHANGED << fftOrder, fftSize, numBins, hopSize, fifoVars,
                                  given, processed >>
    /\ UNCHANGED sampleRate

\* setVoice (lines 413-418)
SetVoiceAny ==
    /\ \E value \in FloatInputs : StoreClamped("voice", value)
    /\ UNCHANGED << configVars, fifoVars, currentSlice, given, processed >>

\* setFreeze (lines 420-425)
SetFreezeAny ==
    /\ \E value \in FloatInputs : StoreClamped("freeze", value)
    /\ UNCHANGED << configVars, fifoVars, currentSlice, given, processed >>

\* setBlur (lines 378-381)
SetBlurAny ==
    /\ \E value \in FloatInputs : StoreClamped("blur", value)
    /\ UNCHANGED << configVars, fifoVars, currentSlice, given, processed >>

\* setWarp (lines 388-391)
SetWarpAny ==
    /\ \E value \in FloatInputs : StoreClamped("warp", value)
    /\ UNCHANGED << configVars, fifoVars, currentSlice, given, processed >>

\* setFeedback (lines 393-396)
SetFeedbackAny ==
    /\ \E value \in FloatInputs : StoreClamped("feedback", value)
    /\ UNCHANGED << configVars, fifoVars, currentSlice, given, processed >>

\* setCenterFreq (lines 428-433)
SetCenterFreqAny ==
    /\ \E value \in FloatInputs : StoreClamped("centerFreq", value)
    /\ UNCHANGED << configVars, fifoVars, currentSlice, given, processed >>

\* setBandwidth (lines 435-440)
SetBandwidthAny ==
    /\ \E value \in FloatInputs : StoreClamped("bandwidth", value)
    /\ UNCHANGED << configVars, fifoVars, currentSlice, given, processed >>

\* setFreq (lines 442-447)
SetFreqAny ==
    /\ \E value \in FloatInputs : StoreClamped("freq", value)
    /\ UNCHANGED << configVars, fifoVars, currentSlice, given, processed >>

\* setOctave (lines 449-454)
SetOctaveAny ==
    /\ \E value \in FloatInputs : StoreClamped("octave", value)
    /\ UNCHANGED << configVars, fifoVars, currentSlice, given, processed >>

\* setMix (lines 398-401)
SetMixAny ==
    /\ \E value \in FloatInputs : StoreClamped("mix", value)
    /\ UNCHANGED << configVars, fifoVars, currentSlice, given, processed >>

\* setColour (lines 403-406)
SetColourAny ==
    /\ \E value \in FloatInputs : StoreClamped("colour", value)
    /\ UNCHANGED << configVars, fifoVars, currentSlice, given, processed >>

\* setFloat (lines 408-411)
SetFloatAny ==
    /\ \E value \in FloatInputs : StoreClamped("float", value)
    /\ UNCHANGED << configVars, fifoVars, currentSlice, given, processed >>

NextSetters ==
    \/ SetSliceAny
    \/ SetVoiceAny
    \/ SetFreezeAny
    \/ SetBlurAny
    \/ SetWarpAny
    \/ SetFeedbackAny
    \/ SetCenterFreqAny
    \/ SetBandwidthAny
    \/ SetFreqAny
    \/ SetOctaveAny
    \/ SetMixAny
    \/ SetColourAny
    \/ SetFloatAny

SpecSetters == Init /\ [][NextSetters]_vars

(***************************************************************************)
(* processFrame driven alone, with the modifier parameters set in between: *)
(* the tracker, the modifiers on the copy of its tracks, the bank update   *)
(***************************************************************************)
\* the frames carry at most one peak: 100 Hz is below the default window
\* (111.8 Hz .. 3577.7 Hz), 1000 Hz inside it and 5000 Hz above it
ModPeaks ==
    { [frequency |-> 100, magnitude |-> 200, phase |-> 0],
      [frequency |-> 1000, magnitude |-> 200, phase |-> 0],
      [frequency |-> 5000, magnitude |-> 200, phase |-> 0] }
ModPeakLists == { << >> } \cup { << p >> : p \in ModPeaks }
MaxModFrames == 2

\* the values the modifier setters are called with, in tenths
ModifierSettings ==
    ({"blur", "feedback"} \X {0, 5})
      \cup ({"warp", "freq", "octave"} \X {5, 10})
      \cup ({"centerFreq"} \X {0, 5, 10})
      \cup ({"bandwidth"} \X {0, 10})

\* setBlur, setFeedback, setWarp, setFreq, setOctave, setCenterFreq, setBandwidth
SetModifier ==
    /\ \E setting \in ModifierSettings : StoreClamped(setting[1], Num(setting[2]))
    /\ UNCHANGED << configVars, fifoVars, currentSlice, given, processed >>

\* processFrame (lines 144-184) on a frame whose FFT yields the list peaks
FrameOn(peaks) ==
    /\ \E r \in { TrackerProcessFrame(activeTracks, nextTrackID, peaks) } :
       \E m \in { ApplyModifiers(r.activeTracks, ModifierParams(atomics),
                                 prevPartialAmplitudes, feedbackAmplitudes) } :
          /\ StoreTracker(r, peaks, TrackerTracksAfter(r.activeTracks, m.tracks))
          /\ partials' = m.tracks
          /\ prevPartialAmplitudes' = m.prevPartialAmplitudes
          /\ feedbackAmplitudes' = m.feedbackAmplitudes
          /\ voices' = UpdateFromPartials(voices, m.tracks, MaxVoicesOf(currentVoice),
                                          stepsToTarget)
          /\ evt' = [TrackerEvent(peaks) EXCEPT
                       !.kind = "frame",
                       !.staleMaps =
                          \E i \in 1..Len(r.activeTracks) :
                             /\ ~OutsideWindow(r.activeTracks[i].frequency,
                                               ModifierParams(atomics))
                             /\ r.activeTracks[i].trackID \in DOMAIN prevPartialAmplitudes
                             /\ prevPartialAmplitudes[r.activeTracks[i].trackID]
                                  # r.activeTracks[i].amplitude]
    /\ UNCHANGED << configVars, fifoVars, currentSlice, processingLock, ctlVars,
                    audioVars, hostPrepared, held, given, processed, nCalls,
                    gateVars, stepsToTarget, reportedLatency, sideVars >>

\* a frame of the engine with the modifiers set as they are
ModFrame ==
    /\ nFrames < MaxModFrames
    /\ ~IsFrozen(currentFreeze)
    /\ \E peaks \in ModPeakLists : FrameOn(peaks)

NextModifiers ==
    \/ SetModifier
    \/ ModFrame

SpecModifiers == Init /\ [][NextModifiers]_vars

(***************************************************************************)
(* The life of tracks over many frames of the engine as constructed (the   *)
(* window is 111.8 Hz .. 3577.7 Hz): weak partials are born and retired    *)
(* frame after frame, strong ones live side by side, a 100 Hz partial is   *)
(* tracked outside the window.                                             *)
(***************************************************************************)
LifePeaks ==
    { [frequency |-> 100, magnitude |-> 200, phase |-> 0],
      [frequency |-> 200, magnitude |-> 50, phase |-> 0],
      [frequency |-> 200, magnitude |-> 200, phase |-> 0],
      [frequency |-> 400, magnitude |-> 50, phase |-> 0],
      [frequency |-> 400, magnitude |-> 200, phase |-> 0] }

LifePeakLists == { << >> } \cup { << p >> : p \in LifePeaks }

MaxLifeFrames == 5

LifeFrame ==
    /\ nFrames < MaxLifeFrames
    /\ \E peaks \in LifePeakLists : FrameOn(peaks)

NextLife == LifeFrame

SpecLife == Init /\ [][NextLife]_vars

(***************************************************************************)
(* Properties                                                              *)
(***************************************************************************)
\* the positions at which the guard is held for prepareToPlay, for a setSlice
\* reconfiguration on either thread, and the ones at which no call that
\* resets the counts is under way on the control thread
PreparePcs == {"prep_rate", "prep_sizes", "prep_buffers", "prep_reset"}
ControlUpdatePcs == PreparePcs \cup {"cslice_sizes", "cslice_buffers"}
AudioUpdatePcs == {"slice_sizes", "slice_buffers"}
QuietPcs == {"idle", "rel_lock", "rel_held"}

\* C1: a processSample call made while another thread holds the guard returns
\* its input, and the outputs of all the calls made during one continuous
\* hold of the guard equal their inputs, in order.
BypassReturnsInput ==
    /\ evt.kind = "bypass" => evt.out = [src |-> "input", v |-> evt.in]
    /\ \A i \in 1..Len(held) : held[i].out = [src |-> "input", v |-> held[i].in]

\* C1 witness: two consecutive calls bypassed during one hold of the guard
TwoSamplesBypassedInOneHold ==
    /\ Len(held) >= 2
    /\ held[2].in = held[1].in + 1
    /\ processingLock = "control"

\* C2: updateFFTSize never runs while the body of processSample runs, and the
\* body finds its positions inside the FIFOs.
ReconfigurationSerialized ==
    /\ ~(pcA = "body" /\ pcC \in ControlUpdatePcs)
    /\ ~(pcA \in AudioUpdatePcs /\ pcC \in ControlUpdatePcs)
    /\ pcA = "body" =>
          /\ processingLock = "audio"
          /\ Len(inputFifo) = fftSize
          /\ Len(dryBuffer) = fftSize
          /\ fifoPos < Len(inputFifo)
          /\ dryBufferPos < Len(dryBuffer)

\* C2 witness: the body runs on a reconfigured engine while prepareToPlay,
\* called on the other thread, waits for the guard
BodyRunsWhilePrepareWaits ==
    /\ pcA = "body"
    /\ pcC = "prep_lock"
    /\ fftOrder = MAX_ORDER
    /\ fifoPos > 0

\* C3: the audio thread never waits for the guard: it is never at a blocking
\* acquire while prepareToPlay holds the guard.
AudioThreadNeverWaits ==
    ~(pcA = "slice_lock" /\ processingLock = "control" /\ pcC \in PreparePcs)

\* C4 as stated: counting every sample given to processSample since the last
\* reset or reconfiguration, a frame runs exactly on the positive multiples of
\* hopSize (looked at while no prepareToPlay or setSlice is under way on the
\* control thread).
FrameOnEveryHopOfSamplesGiven ==
    (evt.kind # "none" /\ pcC \in QuietPcs) =>
        (evt.frame <=> evt.given % evt.hop = 0)

\* C4 amended: counting the samples processSample processed (not bypassed)
\* since the last reset or reconfiguration, a frame runs exactly on the
\* positive multiples of hopSize; a bypassed call runs no frame.
FrameOnEveryHopOfSamplesProcessed ==
    /\ evt.kind = "processed" =>
          /\ evt.processed >= 1
          /\ evt.frame <=> evt.processed % evt.hop = 0
    /\ evt.kind = "bypass" => ~evt.frame

\* C4 witness: the second frame since the last reset, with a bypassed sample
\* in between
SecondFrameAfterBypass ==
    /\ evt.kind = "processed"
    /\ evt.frame
    /\ evt.processed = 2 * evt.hop
    /\ evt.given > evt.processed

\* the unmatched peaks of the last frame that no track was born from
DroppedPeaks ==
    { i \in 1..Len(currentPeaks) :
        /\ ~matchedPeakIndices[i]
        /\ ~\E j \in 1..Len(activeTracks) :
              /\ activeTracks[j].framesSinceCreation = 1
              /\ activeTracks[j].frequency = currentPeaks[i].frequency }

\* C5: after every processFrame the active set holds at most maxActiveTracks
\* tracks, and an unmatched peak creates no track only when the set is full.
TrackCountWithinCap ==
    /\ Len(activeTracks) <= MaxActiveTracks
    /\ DroppedPeaks # {} => Len(activeTracks) = MaxActiveTracks

\* C5 witness: a full active set and an unmatched peak that created no track
BirthDroppedAtCap ==
    /\ Len(activeTracks) = MaxActiveTracks
    /\ DroppedPeaks # {}

\* C6: after every processFrame every track of the active set has
\* amplitude >= AMPLITUDE_THRESHOLD.
AmplitudesAtLeastThreshold ==
    \A i \in 1..Len(activeTracks) : activeTracks[i].amplitude >= AMPLITUDE_THRESHOLD

\* C7: after every processFrame every track of the active set has
\* framesSinceLastUpdate in 0..MAX_FRAMES_DEAD.
FramesSinceLastUpdateInRange ==
    \A i \in 1..Len(activeTracks) :
        activeTracks[i].framesSinceLastUpdate \in 0..MAX_FRAMES_DEAD

\* C7 witness: a track at the upper end of the range
TrackAtMaxFramesDead ==
    \E i \in 1..Len(activeTracks) :
        activeTracks[i].framesSinceLastUpdate = MAX_FRAMES_DEAD

\* C8: over the frames, resets and reconfigurations of the engine, every newly
\* born track gets an id greater than every id issued before, and no two
\* tracks of the active set share an id.
TrackIdsUnique ==
    /\ \A i, j \in 1..Len(issuedIds) : i < j => issuedIds[i] < issuedIds[j]
    /\ \A i, j \in 1..Len(activeTracks) :
          i # j => activeTracks[i].trackID # activeTracks[j].trackID
    /\ \A i \in 1..Len(activeTracks) :
          \E k \in 1..Len(issuedIds) : issuedIds[k] = activeTracks[i].trackID

\* C8 witness: a track born in a frame after a reset or reconfiguration that
\* followed earlier samples, beside an older track
BirthAfterReset ==
    /\ evt.kind = "processed"
    /\ evt.frame
    /\ nCalls > given
    /\ Len(activeTracks) >= 2
    /\ \E i \in 1..Len(activeTracks) :
          /\ activeTracks[i].framesSinceCreation = 1
          /\ activeTracks[i].trackID >= 1

\* the active list after matching and fade-out, before the erase, of the frame
\* that takes the tracker from its state to its primed state
AfterMatching == PerformGreedyMatching(AgeTracks(activeTracks), currentPeaks').tracks
IsFrameStep == nFrames' = nFrames + 1
PositionsOf(id, tracks) == { j \in 1..Len(tracks) : tracks[j].trackID = id }

\* C9 as stated: a track of the active set that is matched to a peak in a
\* frame is in the active set, with its id, after the frame.
MatchedTrackKeepsItsPlace ==
    [][ IsFrameStep =>
          \A matched \in {AfterMatching} :
              \A i \in 1..Len(activeTracks) :
                  matched[i].framesSinceLastUpdate = 0 =>
                      PositionsOf(activeTracks[i].trackID, activeTracks') # {} ]_vars

\* C9 amended: a track of the active set that, after matching and fade-out,
\* is not retired (amplitude >= AMPLITUDE_THRESHOLD, framesSinceLastUpdate <=
\* MAX_FRAMES_DEAD, active) is in the active set with the same id and its
\* updated values after the frame, the survivors in their old order; this
\* covers every track matched to a peak of magnitude >= AMPLITUDE_THRESHOLD;
\* an id leaves the set only when its track is retired.
TrackIdStableUnlessRetired ==
    [][ IsFrameStep =>
          \A matched \in {AfterMatching} : \A faded \in {FadeUnmatched(matched)} :
          LET Stays(i) == /\ faded[i].isActive
                          /\ faded[i].framesSinceLastUpdate <= MAX_FRAMES_DEAD
                          /\ faded[i].amplitude >= AMPLITUDE_THRESHOLD
              Places(i) == PositionsOf(activeTracks[i].trackID, activeTracks')
          IN  /\ \A i \in 1..Len(activeTracks) :
                    /\ Stays(i) =>
                          \E j \in Places(i) :
                              /\ activeTracks'[j].frequency = faded[i].frequency
                              /\ activeTracks'[j].amplitude = faded[i].amplitude
                              /\ activeTracks'[j].framesSinceCreation
                                    >= activeTracks[i].framesSinceCreation
                    /\ ~Stays(i) => Places(i) = {}
                    /\ (matched[i].framesSinceLastUpdate = 0
                          /\ matched[i].amplitude >= AMPLITUDE_THRESHOLD) => Stays(i)
              /\ \A i, k \in 1..Len(activeTracks) :
                    i < k => \A j \in Places(i) : \A l \in Places(k) : j < l ]_vars

\* C9 witness: a track that was matched and kept its id while an older id
\* has been retired
MatchedTrackSurvivedRetirementOfAnother ==
    /\ \E i \in 1..Len(activeTracks) :
          /\ activeTracks[i].framesSinceCreation >= 2
          /\ activeTracks[i].framesSinceLastUpdate = 0
          /\ activeTracks[i].trackID >= 1
    /\ nextTrackID > Len(activeTracks)

\* C10: after an engine reset (prepareToPlay) or a reconfiguration, before any
\* further sample, the tracker's active set is empty and its id counter is 0.
TrackerClearedByReset ==
    (given = 0 /\ processingLock = "free") =>
        (activeTracks = << >> /\ nextTrackID = 0)

\* C20: framesSinceLastUpdate counts the consecutive unmatched frames: a frame
\* in which a track is not matched raises its count by exactly one, and the
\* track is retired for age only when the count would exceed MAX_FRAMES_DEAD
\* (a track whose count is below MAX_FRAMES_DEAD and whose faded amplitude is
\* still >= AMPLITUDE_THRESHOLD survives the frame).
UnmatchedFramesCountedOneByOne ==
    [][ IsFrameStep =>
          \A matched \in {AfterMatching} : \A faded \in {FadeUnmatched(matched)} :
              \A i \in 1..Len(activeTracks) :
                  matched[i].framesSinceLastUpdate # 0 =>
                      /\ \A j \in PositionsOf(activeTracks[i].trackID, activeTracks') :
                            activeTracks'[j].framesSinceLastUpdate
                                = activeTracks[i].framesSinceLastUpdate + 1
                      /\ (/\ activeTracks[i].framesSinceLastUpdate < MAX_FRAMES_DEAD
                          /\ faded[i].amplitude >= AMPLITUDE_THRESHOLD)
                            => PositionsOf(activeTracks[i].trackID, activeTracks') # {} ]_vars

\* C17: after any sequence of prepareToPlay and setSlice calls, the latency
\* reported to the host equals the engine's current fftSize (looked at when no
\* reconfiguration is in progress)
ReportedLatencyIsFftSize ==
    (hostPrepared /\ pcC = "idle" /\ pcA \notin AudioUpdatePcs)
        => reportedLatency = fftSize

\* C18: right after a reconfiguration (no processSample call since it ended),
\* the input FIFO, the dry FIFO and the per-bin vectors hold only zeros and the
\* three positions are 0
ReconfigurationLeavesOnlyZeros ==
    (given = 0 /\ processingLock = "free")
        => /\ AllZero(inputFifo)
           /\ AllZero(dryBuffer)
           /\ AllZero(prevMagnitude)
           /\ fifoPos = 0
           /\ dryBufferPos = 0
           /\ hopCount = 0

\* C13: as long as prepareToPlay has never completed, every processSample call
\* was a bypass that returned its input sample and touched neither FIFO
UninitializedEngineBypasses ==
    (~hostPrepared /\ nCalls > 0)
        => /\ evt.kind = "bypass"
           /\ evt.out = BypassOutput(evt.in)
           /\ inputFifo = << >>
           /\ dryBuffer = << >>

\* C11: a frame processed while FREEZE is above 0.5 leaves the tracker's whole
\* state and the current peak list as they were, frame after frame
FrozenFrameLeavesTrackerAndPeaks ==
    [][ (nFrames' = nFrames + 1 /\ currentFreeze > FREEZE_GATE)
            => UNCHANGED << activeTracks, nextTrackID, matchedPeakIndices, currentPeaks >>
      ]_vars

\* C11: two frozen frames in a row have run over a window that holds a loud
\* sample, while the tracker holds a track
FrozenFramesOverLoudInput ==
    /\ evt.frame
    /\ evt.frozenFrames >= 2
    /\ activeTracks # << >>
    /\ ~AllZero(inputFifo)

\* C12: FREEZE off and more than fftSize + MAX_FRAMES_DEAD * hopSize zero samples
\* processed in a row: the tracker is empty, no voice is active, the bank is silent
SilentAfterFrameAndDeadHops ==
    evt.zeros > fftSize + MAX_FRAMES_DEAD * hopSize
        => /\ activeTracks = << >>
           /\ ActiveVoiceCount(voices) = 0
           /\ evt.level = 0

\* C12: FREEZE off and zero samples processed in a row: the tracker is empty
\* after more than fftSize + MAX_FRAMES_DEAD * hopSize of them; after one more
\* hop and the amplitude ramp no voice is active and the bank is silent
SilentAfterRampAndOneMoreHop ==
    /\ evt.zeros > fftSize + MAX_FRAMES_DEAD * hopSize => activeTracks = << >>
    /\ evt.zeros > fftSize + (MAX_FRAMES_DEAD + 1) * hopSize + stepsToTarget
          => /\ ActiveVoiceCount(voices) = 0
             /\ evt.level = 0

\* C12: the silence has lasted beyond the longer bound, the amplitude ramp is
\* longer than a hop, and a voice that had been sounding was ramped down
\* towards 0 and is switched off
VoiceFadedOutInSilence ==
    /\ evt.zeros > fftSize + (MAX_FRAMES_DEAD + 1) * hopSize + stepsToTarget
    /\ stepsToTarget > hopSize
    /\ nextTrackID > 0
    /\ \E i \in 1..Len(voices) :
          ~voices[i].isActive /\ voices[i].step < 0 /\ voices[i].target = 0

\* C15: after a frame, the number of active voices is at most the maxVoices
\* that frame computed from the VOICE parameter
ActiveVoicesWithinMaxVoices ==
    (evt.kind = "processed" /\ evt.frame) => evt.active <= evt.maxVoices

\* C19: no processSample call allocates on the heap
ProcessSampleAllocatesNothing ==
    evt.kind = "processed" => evt.allocs = 0

\* C16: the peaks extractDominantPeaks returns are in decreasing order of
\* magnitude, and peaks of equal magnitude are in ascending order of bin index
PeaksOrderedByMagnitudeThenBin ==
    \A k \in 1..(Len(currentPeaks) - 1) :
        \/ currentPeaks[k].magnitude > currentPeaks[k + 1].magnitude
        \/ /\ currentPeaks[k].magnitude = currentPeaks[k + 1].magnitude
           /\ currentPeaks[k].binIndex < currentPeaks[k + 1].binIndex

\* the in-range value nearest to a float that is not a NaN
NearestInRange(x) ==
    CASE x.kind = "pinf" -> F_ONE
      [] x.kind = "ninf" -> F_ZERO
      [] OTHER -> Num(Jlimit(PARAM_MIN, PARAM_MAX, x.v))

\* C14: whatever the setters were called with, every stored parameter is a
\* number in [0, 1], and the value a call stored is the one the nearest
\* in-range value would have stored
StoredParametersInUnitRange ==
    /\ \A name \in DOMAIN atomics :
          /\ atomics[name].kind = "num"
          /\ PARAM_MIN <= atomics[name].v
          /\ atomics[name].v <= PARAM_MAX
    /\ (evt.kind = "setter" /\ evt.in.kind # "nan")
          => evt.out = JlimitF(F_ZERO, F_ONE, NearestInRange(evt.in))


(***************************************************************************)
(* C26: a processFrame call with an empty peak list creates no track and   *)
(* updates none (no id is issued, no track is added, every track that      *)
(* stays keeps its frequency and its histories and is counted unmatched);  *)
(* once three consecutive calls had an empty peak list the active set is   *)
(* empty, and it stays empty while the peak lists stay empty.              *)
(***************************************************************************)
EmptyFrameOnlyAgesFadesRetires ==
    [][(IsFrameStep /\ currentPeaks' = << >>) =>
         /\ nextTrackID' = nextTrackID
         /\ Len(activeTracks') <= Len(activeTracks)
         /\ \A j \in 1..Len(activeTracks') :
              /\ activeTracks'[j].framesSinceLastUpdate > 0
              /\ \E i \in 1..Len(activeTracks) :
                   /\ activeTracks[i].trackID = activeTracks'[j].trackID
                   /\ activeTracks[i].frequency = activeTracks'[j].frequency
                   /\ activeTracks[i].frequencyHistory = activeTracks'[j].frequencyHistory
                   /\ activeTracks[i].amplitudeHistory = activeTracks'[j].amplitudeHistory
                   /\ activeTracks[i].framesSinceCreation
                        = activeTracks'[j].framesSinceCreation
         /\ (evt.emptyFrames >= MAX_FRAMES_DEAD - 1 => activeTracks' = << >>)]_vars

\* C26 witness: the third consecutive empty frame retired the last track
DrainedByThirdEmptyFrame ==
    /\ evt.emptyFrames = MAX_FRAMES_DEAD
    /\ evt.retired > 0
    /\ activeTracks = << >>


(***************************************************************************)
(* C21: the fade-out is applied once per run of unmatched frames.  A track *)
(* that was updated (or born) in the previous frame and finds no match in  *)
(* this one gets prevAmplitude = its old amplitude and 0.9 times the old   *)
(* amplitude; a track that was already unmatched in the previous frame and *)
(* is still held keeps amplitude, prevAmplitude, frequency and histories.  *)
(***************************************************************************)
FadeOutOncePerUnmatchedRun ==
    [][IsFrameStep =>
         \A i \in 1..Len(activeTracks) : \A j \in 1..Len(activeTracks') :
            ( /\ activeTracks'[j].trackID = activeTracks[i].trackID
              /\ activeTracks'[j].framesSinceLastUpdate > 0 ) =>
                /\ activeTracks'[j].frequency = activeTracks[i].frequency
                /\ activeTracks'[j].frequencyHistory = activeTracks[i].frequencyHistory
                /\ activeTracks'[j].amplitudeHistory = activeTracks[i].amplitudeHistory
                /\ IF activeTracks[i].framesSinceLastUpdate = 0
                   THEN /\ activeTracks'[j].prevAmplitude = activeTracks[i].amplitude
                        /\ activeTracks'[j].amplitude
                             = (activeTracks[i].amplitude * 9) \div 10
                   ELSE /\ activeTracks'[j].prevAmplitude = activeTracks[i].prevAmplitude
                        /\ activeTracks'[j].amplitude = activeTracks[i].amplitude]_vars

\* C21 witness: a track in its second consecutive unmatched frame, still held
\* with the amplitude of the single fade-out
HeldThroughSecondUnmatchedFrame ==
    \E i \in 1..Len(activeTracks) :
        /\ activeTracks[i].framesSinceLastUpdate = MAX_FRAMES_DEAD
        /\ activeTracks[i].amplitude < activeTracks[i].prevAmplitude
        /\ activeTracks[i].amplitude = (activeTracks[i].prevAmplitude * 9) \div 10


(***************************************************************************)
(* C22: in one processFrame call each peak is used at most once: at most   *)
(* one track comes out of the matching updated from a given peak, at most  *)
(* one track is born from it, and a peak that updated a track gives birth  *)
(* to none, also when the track it updated is erased in the same call.     *)
(* (The peaks of one list have pairwise different frequencies, so a track  *)
(* updated or born in the call names its peak by its frequency.)           *)
(***************************************************************************)
UpdatedFrom(p, tracks) ==
    { i \in 1..Len(tracks) : /\ tracks[i].framesSinceLastUpdate = 0
                             /\ tracks[i].frequency = p.frequency
                             /\ tracks[i].amplitude = p.magnitude }

EachPeakUsedAtMostOnce ==
    [][IsFrameStep =>
         \A matched \in { AfterMatching } : \A k \in 1..Len(currentPeaks') :
            \A born \in { { j \in UpdatedFrom(currentPeaks'[k], activeTracks') :
                               activeTracks'[j].trackID >= nextTrackID } } :
               /\ Cardinality(UpdatedFrom(currentPeaks'[k], matched)) <= 1
               /\ Cardinality(born) <= 1
               /\ UpdatedFrom(currentPeaks'[k], matched) # {} => born = {}]_vars

\* C22 witness: a peak was claimed by a track that the same call erased (the
\* peak is too weak to keep it), there was room for a birth, and none was born
MatchedPeakOfRetiredTrackNotBorn ==
    \E k \in 1..Len(currentPeaks) :
        /\ matchedPeakIndices[k]
        /\ UpdatedFrom(currentPeaks[k], activeTracks) = {}
        /\ Len(activeTracks) < MaxActiveTracks
        /\ evt.retired > 0


(***************************************************************************)
(* C23: the greedy match rule.  The tracks are taken in active-list order; *)
(* each is updated from the peak, among those no earlier track claimed,    *)
(* that is closest to its predicted frequency, provided the distance is    *)
(* strictly below 10% of the predicted frequency; of equally close peaks   *)
(* the one earlier in the list is taken; a track with no such peak is not  *)
(* updated.  The flags left behind name exactly the claimed peaks.         *)
(***************************************************************************)
PeakDistance(t, p) == Abs(p.frequency - PredictedFrequency(t))

\* the peak the rule gives track t when the peaks in claimed are taken (0: none)
ClosestUnclaimed(t, peaks, claimed) ==
    LET inReach == { i \in (1..Len(peaks)) \ claimed :
                       FREQ_DEVIATION_DIV * PeakDistance(t, peaks[i])
                          < PredictedFrequency(t) }
    IN  IF inReach = {} THEN 0
        ELSE CHOOSE i \in inReach :
                \A j \in inReach :
                   \/ PeakDistance(t, peaks[i]) < PeakDistance(t, peaks[j])
                   \/ /\ PeakDistance(t, peaks[i]) = PeakDistance(t, peaks[j])
                      /\ i <= j

\* the peaks the rule gives to the first k tracks
RECURSIVE ClaimedUpTo(_, _, _)
ClaimedUpTo(k, tracks, peaks) ==
    IF k = 0 THEN {}
    ELSE LET before == ClaimedUpTo(k - 1, tracks, peaks)
             b == ClosestUnclaimed(tracks[k], peaks, before)
         IN  IF b = 0 THEN before ELSE before \cup {b}

GreedyMatchRule ==
    [][IsFrameStep =>
         \A aged \in { AgeTracks(activeTracks) } : \A matched \in { AfterMatching } :
            /\ Len(matched) = Len(aged)
            /\ \A k \in 1..Len(aged) :
                 \A b \in { ClosestUnclaimed(aged[k], currentPeaks',
                                             ClaimedUpTo(k - 1, aged, currentPeaks')) } :
                    IF b = 0
                    THEN matched[k] = aged[k]
                    ELSE /\ matched[k].trackID = aged[k].trackID
                         /\ matched[k].frequency = currentPeaks'[b].frequency
                         /\ matched[k].amplitude = currentPeaks'[b].magnitude
                         /\ matched[k].framesSinceLastUpdate = 0
            /\ matchedPeakIndices'
                 = [i \in 1..Len(currentPeaks') |->
                      i \in ClaimedUpTo(Len(aged), aged, currentPeaks')]]_vars

\* C23 witness: a track at 105 Hz met two peaks equally far from it, both in
\* reach, took the first of the list, and the second gave birth to a track
TieTakenByEarlierPeak ==
    /\ Len(currentPeaks) = 2
    /\ Len(activeTracks) = 2
    /\ activeTracks[1].framesSinceLastUpdate = 0
    /\ activeTracks[1].framesSinceCreation = 2
    /\ activeTracks[1].frequency = currentPeaks[1].frequency
    /\ Abs(currentPeaks[1].frequency - activeTracks[1].prevFrequency)
         = Abs(currentPeaks[2].frequency - activeTracks[1].prevFrequency)
    /\ FREQ_DEVIATION_DIV * Abs(currentPeaks[2].frequency - activeTracks[1].prevFrequency)
         < activeTracks[1].prevFrequency
    /\ activeTracks[2].framesSinceCreation = 1
    /\ activeTracks[2].framesSinceLastUpdate = 0
    /\ activeTracks[2].frequency = currentPeaks[2].frequency


(***************************************************************************)
(* C24: the histories of a track.  Both have the same length, between 1    *)
(* and MAX_HISTORY_SIZE, which is the smaller of MAX_HISTORY_SIZE and the  *)
(* number of peaks the track was created or updated from; a birth starts   *)
(* them with the peak, a match appends the peak and keeps the last         *)
(* MAX_HISTORY_SIZE entries, an unmatched frame leaves them alone: they    *)
(* hold the most recent peaks, oldest first.  A match also stores the old  *)
(* frequency and amplitude in prevFrequency and prevAmplitude, sets        *)
(* framesSinceLastUpdate to 0 and adds 1 to framesSinceCreation.           *)
(***************************************************************************)
MostRecent(s) ==
    SubSeq(s, IF Len(s) > MAX_HISTORY_SIZE THEN Len(s) - MAX_HISTORY_SIZE + 1 ELSE 1,
           Len(s))

HistoriesHoldMostRecentPeaks ==
    [][IsFrameStep =>
         \A j \in 1..Len(activeTracks') : \A new \in { activeTracks'[j] } :
            /\ Len(new.frequencyHistory) = Len(new.amplitudeHistory)
            /\ Len(new.frequencyHistory) \in 1..MAX_HISTORY_SIZE
            /\ Len(new.frequencyHistory)
                 = IF new.framesSinceCreation < MAX_HISTORY_SIZE
                   THEN new.framesSinceCreation ELSE MAX_HISTORY_SIZE
            /\ IF new.trackID >= nextTrackID
               THEN \E k \in 1..Len(currentPeaks') :
                       /\ new.frequencyHistory = << currentPeaks'[k].frequency >>
                       /\ new.amplitudeHistory = << currentPeaks'[k].magnitude >>
                       /\ new.framesSinceCreation = 1
               ELSE \E i \in 1..Len(activeTracks) : \A old \in { activeTracks[i] } :
                       /\ old.trackID = new.trackID
                       /\ IF new.framesSinceLastUpdate = 0
                          THEN \E k \in 1..Len(currentPeaks') :
                                 /\ new.frequency = currentPeaks'[k].frequency
                                 /\ new.amplitude = currentPeaks'[k].magnitude
                                 /\ new.frequencyHistory
                                      = MostRecent(Append(old.frequencyHistory,
                                                          currentPeaks'[k].frequency))
                                 /\ new.amplitudeHistory
                                      = MostRecent(Append(old.amplitudeHistory,
                                                          currentPeaks'[k].magnitude))
                                 /\ new.prevFrequency = old.frequency
                                 /\ new.prevAmplitude = old.amplitude
                                 /\ new.framesSinceCreation = old.framesSinceCreation + 1
                          ELSE /\ new.frequencyHistory = old.frequencyHistory
                               /\ new.amplitudeHistory = old.amplitudeHistory
                               /\ new.framesSinceCreation = old.framesSinceCreation]_vars

\* C24 witness: a track was just updated from its seventh peak; its histories
\* are full, have dropped two entries and hold peaks of different frequency
HistoryDroppedOldestPeaks ==
    \E i \in 1..Len(activeTracks) :
        /\ activeTracks[i].framesSinceLastUpdate = 0
        /\ activeTracks[i].framesSinceCreation = MAX_HISTORY_SIZE + 2
        /\ Len(activeTracks[i].frequencyHistory) = MAX_HISTORY_SIZE
        /\ activeTracks[i].frequencyHistory[1]
             # activeTracks[i].frequencyHistory[MAX_HISTORY_SIZE]
        /\ activeTracks[i].amplitudeHistory[1]
             # activeTracks[i].amplitudeHistory[MAX_HISTORY_SIZE]


(***************************************************************************)
(* C25: birth order.  After the erase, the peaks no track claimed become   *)
(* new tracks in list order, with consecutive ids from nextTrackID on,     *)
(* appended behind the surviving tracks, until the peaks are exhausted or  *)
(* the set holds MaxActiveTracks tracks; the room is counted after the     *)
(* erase, and no peak left without a track is stronger than one that got   *)
(* a track.                                                                *)
(***************************************************************************)
\* the indices of the unclaimed peaks, in list order
RECURSIVE UnclaimedFrom(_, _)
UnclaimedFrom(k, flags) ==
    IF k > Len(flags) THEN << >>
    ELSE IF flags[k] THEN UnclaimedFrom(k + 1, flags)
         ELSE << k >> \o UnclaimedFrom(k + 1, flags)

BirthsInListOrder ==
    [][IsFrameStep =>
         \A unclaimed \in { UnclaimedFrom(1, matchedPeakIndices') } :
         \A kept \in { SelectSeq(activeTracks', LAMBDA t : t.trackID < nextTrackID) } :
         \A n \in { Len(activeTracks') - Len(kept) } :
            /\ n = IF Len(unclaimed) < MaxActiveTracks - Len(kept)
                   THEN Len(unclaimed) ELSE MaxActiveTracks - Len(kept)
            /\ Len(kept) = Len(activeTracks) - evt'.retired
            /\ activeTracks'
                 = kept \o [k \in 1..n |->
                              NewPartialTrack(nextTrackID + k - 1,
                                              currentPeaks'[unclaimed[k]])]
            /\ nextTrackID' = nextTrackID + n
            /\ \A k \in 1..Len(unclaimed) : \A b \in 1..n :
                 k > n => currentPeaks'[unclaimed[k]].magnitude
                            <= currentPeaks'[unclaimed[b]].magnitude]_vars

\* C25 witness: the set was full, the call erased one track and the slot it
\* freed went, behind the surviving track, to the peak no track had claimed
FreedSlotTakenByBirth ==
    /\ Len(activeTracks) = MaxActiveTracks
    /\ evt.retired = 1
    /\ Len(currentPeaks) = 1
    /\ ~matchedPeakIndices[1]
    /\ \A i \in 1..Len(activeTracks) :
          (activeTracks[i].framesSinceCreation = 1
             /\ activeTracks[i].framesSinceLastUpdate = 0)
          <=> i = MaxActiveTracks
    /\ activeTracks[MaxActiveTracks].frequency = currentPeaks[1].frequency
    /\ activeTracks[MaxActiveTracks].trackID = nextTrackID - 1

(***************************************************************************)
(* C27: the modifier chain works on a copy.  After a processFrame call the *)
(* tracker holds exactly the tracks its own processFrame made of the old   *)
(* ones and the peaks, all of them active, whatever the parameters are;    *)
(* the copy handed to the bank has the same tracks in the same order, each *)
(* with its trackID.                                                       *)
(***************************************************************************)
ModifiersWorkOnACopy ==
    [][IsFrameStep =>
         \A r \in { TrackerProcessFrame(activeTracks, nextTrackID, currentPeaks') } :
            /\ activeTracks' = r.activeTracks
            /\ \A i \in 1..Len(activeTracks') : activeTracks'[i].isActive
            /\ Len(partials') = Len(activeTracks')
            /\ \A i \in 1..Len(partials') :
                  partials'[i].trackID = activeTracks'[i].trackID]_vars

\* C27 witness: a track was matched in its second frame; its copy differs from
\* it in frequency and, because the first frame's copy was blurred too, in
\* amplitude
CopyModifiedInTwoFrames ==
    /\ evt.kind = "frame"
    /\ \E i \in 1..Len(activeTracks) :
          /\ activeTracks[i].framesSinceCreation = 2
          /\ activeTracks[i].framesSinceLastUpdate = 0
          /\ partials[i].trackID = activeTracks[i].trackID
          /\ partials[i].isActive
          /\ partials[i].frequency # activeTracks[i].frequency
          /\ partials[i].amplitude # activeTracks[i].amplitude

(***************************************************************************)
(* C28: the frequency window.  A track whose frequency, as the tracker     *)
(* holds it, is below minFreq or above maxFreq has its copy marked         *)
(* inactive and otherwise untouched: same frequency, same amplitude, and   *)
(* its entries in the blur and feedback maps are as before the call (not   *)
(* created, not changed).  The copy of a track inside the window stays     *)
(* active, wherever warp and transposition move it.                        *)
(***************************************************************************)
SameEntry(m1, m2, key) ==
    /\ key \in DOMAIN m1 <=> key \in DOMAIN m2
    /\ MapGet(m1, key) = MapGet(m2, key)

WindowSkipsOutsideTracks ==
    [][IsFrameStep =>
         \A p \in { ModifierParams(atomics) } : \A i \in 1..Len(activeTracks') :
            IF BelowWindow(activeTracks'[i].frequency, p)
                 \/ AboveWindow(activeTracks'[i].frequency, p)
            THEN /\ ~partials'[i].isActive
                 /\ partials'[i].frequency = activeTracks'[i].frequency
                 /\ partials'[i].amplitude = activeTracks'[i].amplitude
                 /\ SameEntry(prevPartialAmplitudes', prevPartialAmplitudes,
                              activeTracks'[i].trackID)
                 /\ SameEntry(feedbackAmplitudes', feedbackAmplitudes,
                              activeTracks'[i].trackID)
            ELSE partials'[i].isActive]_vars

\* C28 witness: with blur and a transposition on, a frame held a track above
\* the window, skipped, and a track inside it that the transposition moved
\* above the window and that stayed active
SkippedAboveAndMovedAbove ==
    /\ evt.kind = "frame"
    /\ atomics.blur.v > 0
    /\ \E i, j \in 1..Len(activeTracks) :
          /\ AboveWindow(activeTracks[i].frequency, ModifierParams(atomics))
          /\ ~partials[i].isActive
          /\ partials[i].frequency = activeTracks[i].frequency
          /\ partials[i].amplitude = activeTracks[i].amplitude
          /\ activeTracks[i].trackID \notin DOMAIN prevPartialAmplitudes
          /\ ~AboveWindow(activeTracks[j].frequency, ModifierParams(atomics))
          /\ partials[j].isActive
          /\ AboveWindow(partials[j].frequency, ModifierParams(atomics))

(***************************************************************************)
(* C29: with bandwidth 1 the window excludes nothing in the audio band:    *)
(* whatever centerFreq is, the copy of a track between 20 Hz and 20 kHz    *)
(* stays active.  (The statement of the specification; the code does not   *)
(* satisfy it.)                                                            *)
(***************************************************************************)
FullBandwidthExcludesNothing ==
    [][(IsFrameStep /\ atomics.bandwidth.v = PARAM_MAX) =>
         \A i \in 1..Len(activeTracks') :
            activeTracks'[i].frequency \in MIN_FREQ..MAX_FREQ
               => partials'[i].isActive]_vars

(***************************************************************************)
(* C30: neutral settings are the identity.  With blur 0, feedback 0,       *)
(* warp 0.5, freq 0.5 and octave 0.5 the copy of every track inside the    *)
(* window goes to the bank with the tracker's frequency and amplitude,     *)
(* whatever the blur and feedback maps hold.                               *)
(***************************************************************************)
NeutralSettings ==
    /\ atomics.blur.v = 0 /\ atomics.feedback.v = 0
    /\ atomics.warp.v = 5 /\ atomics.freq.v = 5 /\ atomics.octave.v = 5

NeutralSettingsAreIdentity ==
    [][(IsFrameStep /\ NeutralSettings) =>
         \A i \in 1..Len(activeTracks') :
            ~( BelowWindow(activeTracks'[i].frequency, ModifierParams(atomics))
                 \/ AboveWindow(activeTracks'[i].frequency, ModifierParams(atomics)) )
            => /\ partials'[i].isActive
               /\ partials'[i].frequency = activeTracks'[i].frequency
               /\ partials'[i].amplitude = activeTracks'[i].amplitude]_vars

\* C30 witness: a frame ran with neutral settings while the blur map held, for
\* a track inside the window, an amplitude other than the track's own (left by
\* an earlier frame with blur on); the copy equals the track
IdentityOverStaleMaps ==
    /\ evt.kind = "frame"
    /\ evt.staleMaps
    /\ NeutralSettings
    /\ \E i \in 1..Len(activeTracks) :
          /\ partials[i].isActive
          /\ activeTracks[i].framesSinceCreation >= 2
          /\ partials[i].frequency = activeTracks[i].frequency
          /\ partials[i].amplitude = activeTracks[i].amplitude

(***************************************************************************)
(* C36: a processSample call whose try-lock fails changes no engine state: *)
(* the positions, the hop counter, both FIFOs, the tracker, the modifier   *)
(* maps and the voices are as before, the sample is not counted towards    *)
(* the next frame and is not in the input FIFO a frame will analyse.       *)
(***************************************************************************)
BypassedSampleChangesNothing ==
    [][ (nCalls' = nCalls + 1 /\ evt'.kind = "bypass")
        => /\ UNCHANGED << fifoPos, dryBufferPos, hopCount, inputFifo, dryBuffer,
                           prevMagnitude, trackerVars, currentPeaks, voices,
                           modVars, processed, nFrames >>
           /\ \A i \in 1..Len(inputFifo') : inputFifo'[i] # evt'.in ]_vars

\* C36 witness: a call was bypassed in the middle of a hop of a running engine
BypassedMidHop ==
    /\ evt.kind = "bypass"
    /\ pcA = "idle"
    /\ processed >= 1
    /\ hopCount = 1
    /\ \E i \in 1..Len(inputFifo) : inputFifo[i] # 0

(***************************************************************************)
(* The engine called from one thread: prepareToPlay, setSlice and          *)
(* processSample run one after another, each from its first line to its    *)
(* last.  The n-th sample handed to processSample has the value n.         *)
(***************************************************************************)
MaxStreamSamples == 10
MaxStreamCtl == 2
\* slice values setSlice is called with, in tenths
StreamSliceInputs == {0, 1, 2}

\* SolaireAudioProcessor::prepareToPlay (PluginProcessor.cpp:64) and
\* PanharmoniumEngine::prepareToPlay (lines 9-42): the rate, updateFFTSize with
\* the order the engine has, the bank prepared, reset()
StreamPrepareToPlay ==
    /\ nCtl < MaxStreamCtl
    /\ \E rate \in SampleRates :
          /\ sampleRate' = rate
          /\ stepsToTarget' = StepsToTarget(rate)
    /\ reportedLatency' = fftSize
    /\ UpdateSizes(fftOrder)
    /\ inputFifo' = ZeroFill(Resize(inputFifo, Pow2(fftOrder)))
    /\ dryBuffer' = ZeroFill(Resize(dryBuffer, Pow2(fftOrder)))
    /\ prevMagnitude' = ZeroFill(Resize(prevMagnitude, Pow2(fftOrder) \div 2 + 1))
    /\ fifoPos' = 0
    /\ hopCount' = 0
    /\ dryBufferPos' = 0
    /\ voices' = [i \in 1..Len(voices) |-> VoiceReset(voices[i])]
    /\ prevPartialAmplitudes' = EmptyMap
    /\ feedbackAmplitudes' = EmptyMap
    /\ given' = 0
    /\ processed' = 0
    /\ hostPrepared' = TRUE
    /\ nCtl' = nCtl + 1
    /\ evt' = [evt EXCEPT !.kind = "prepared", !.frame = FALSE]
    /\ UNCHANGED << trackerVars, currentPeaks, currentSlice, processingLock, pcC,
                    ctlLocals, audioVars, held, nCalls, nFrames, issuedIds,
                    gateVars, sideVars, partials >>

\* setSlice (lines 351-376): the store, the order from the value and the
\* sample rate, updateFFTSize when the order differs from fftOrder
StreamSetSlice ==
    /\ nCtl < MaxStreamCtl
    /\ \E value \in StreamSliceInputs :
          currentSlice' = Jlimit(PARAM_MIN, PARAM_MAX, value)
    /\ \E order \in { SliceOrder(currentSlice', sampleRate) } :
          IF order # fftOrder
          THEN /\ UpdateSizes(order)
               /\ inputFifo' = Resize(inputFifo, Pow2(order))
               /\ dryBuffer' = Resize(dryBuffer, Pow2(order))
               /\ prevMagnitude' = Resize(prevMagnitude, Pow2(order) \div 2 + 1)
               /\ fifoPos' = 0
               /\ hopCount' = 0
               /\ dryBufferPos' = 0
               /\ given' = 0
               /\ processed' = 0
          ELSE UNCHANGED << fftOrder, fftSize, numBins, hopSize, fifoVars, given,
                            processed >>
    /\ nCtl' = nCtl + 1
    /\ evt' = [evt EXCEPT !.kind = "setSlice", !.frame = FALSE]
    /\ UNCHANGED << trackerVars, currentPeaks, sampleRate, processingLock, pcC,
                    ctlLocals, audioVars, hostPrepared, held, nCalls, nFrames,
                    issuedIds, restVars >>

\* processSample (lines 109-142) on a prepared engine: the try-lock is taken,
\* the body runs, the lock is released
StreamProcessSample ==
    /\ hostPrepared
    /\ nCalls < MaxStreamSamples
    /\ ProcessSampleCore(InputSample)
    /\ UNCHANGED << processingLock, ctlVars, audioVars, held >>

NextStream ==
    \/ StreamPrepareToPlay
    \/ StreamSetSlice
    \/ StreamProcessSample

SpecStream == Init /\ [][NextStream]_vars

(***************************************************************************)
(* C37: on a prepared engine, with no call holding the guard,              *)
(* 0 <= fifoPos < fftSize, both                                            *)
(* FIFOs have fftSize elements, dryBufferPos = fifoPos,                    *)
(* 0 <= hopCount < hopSize and hopCount = fifoPos mod hopSize; a frame is  *)
(* processed with fifoPos a multiple of hopSize.                           *)
(***************************************************************************)
PositionsInStep ==
    /\ []((hostPrepared /\ processingLock = "free") =>
            /\ 0 <= fifoPos /\ fifoPos < fftSize
            /\ Len(inputFifo) = fftSize
            /\ Len(dryBuffer) = fftSize
            /\ dryBufferPos = fifoPos
            /\ 0 <= hopCount /\ hopCount < hopSize
            /\ hopCount = fifoPos % hopSize)
    /\ [][IsFrameStep => fifoPos' % hopSize' = 0]_vars

\* C37 witness: the positions have wrapped round the FIFO and stand in the
\* middle of a hop
PositionsWrapped ==
    /\ hostPrepared
    /\ processed = fftSize + 1
    /\ fifoPos = 1
    /\ hopCount = 1
    /\ nFrames >= 4

(***************************************************************************)
(* C34: the buffer a frame analyses has inputFifo[(fifoPos + k) mod        *)
(* fftSize] as its element k, and once fftSize samples were processed      *)
(* since the last reset it is the last fftSize inputs, oldest first.       *)
(***************************************************************************)
FrameHoldsLastInputsInOrder ==
    [][ IsFrameStep =>
          \A buffer \in { Unwrap(inputFifo', fifoPos') } :
             /\ Len(buffer) = fftSize
             /\ \A k \in 0..(fftSize - 1) :
                   buffer[k + 1] = inputFifo'[((fifoPos' + k) % fftSize) + 1]
             /\ processed' >= fftSize
                   => \A k \in 1..fftSize : buffer[k] = nCalls' - fftSize + k ]_vars

\* C34 witness: a frame was taken with the FIFO full and fifoPos off its start
FrameTakenAcrossTheWrap ==
    /\ evt.kind = "processed"
    /\ evt.frame
    /\ processed >= fftSize + 2
    /\ fifoPos = 2

(***************************************************************************)
(* C33: once fftSize samples were processed since the last reset, the dry  *)
(* sample a processSample call mixes is the input given fftSize samples    *)
(* earlier (fftSize is what getLatencyInSamples returns).                  *)
(***************************************************************************)
DrySampleDelayedByLatency ==
    (evt.kind = "processed" /\ processed > fftSize)
        => evt.out.v = evt.in - fftSize

(***************************************************************************)
(* C35: after any sequence of setSlice and prepareToPlay calls fftOrder is *)
(* the clamped rounded log2 of the stored slice length at the current      *)
(* sample rate, and fftSize, hopSize and numBins follow from it.           *)
(***************************************************************************)
OrderFollowsSliceAndRate ==
    nCtl >= 1
        => /\ fftOrder = SliceOrder(currentSlice, sampleRate)
           /\ fftSize = Pow2(fftOrder)
           /\ hopSize = fftSize \div overlap
           /\ numBins = fftSize \div 2 + 1

(***************************************************************************)
(* C40: no thread reads fftOrder (setSlice, line 371) or sampleRate while  *)
(* the other thread is writing it: there is no state in which the audio    *)
(* thread stands at its comparison with fftOrder while the control thread  *)
(* stands at the assignment of fftOrder in updateFFTSize.                  *)
(***************************************************************************)
NoConfigReadDuringWrite ==
    ~ ( /\ pcA = "slice_order"
        /\ pcC \in {"prep_sizes", "cslice_sizes"} )

(***************************************************************************)
(* C39: every track the tracker stores is active in every reachable state: *)
(* the window deactivates only the frame's copy, which keeps the ids, and  *)
(* a track leaves the tracker only by age or by amplitude, so an           *)
(* out-of-window partial is tracked on under its id while it is muted.     *)
(***************************************************************************)
TrackerTracksStayActive ==
    /\ [](\A i \in 1..Len(activeTracks) : activeTracks[i].isActive)
    /\ [][IsFrameStep =>
            /\ Len(partials') = Len(activeTracks')
            /\ \A i \in 1..Len(partials') :
                  partials'[i].trackID = activeTracks'[i].trackID
            /\ \A faded \in { FadeUnmatched(AfterMatching) } :
               \A j \in 1..Len(faded) :
                  /\ faded[j].isActive
                  /\ faded[j].trackID = activeTracks[j].trackID
                  /\ (\A k \in 1..Len(activeTracks') :
                         activeTracks'[k].trackID # faded[j].trackID)
                        <=> \/ faded[j].framesSinceLastUpdate > MAX_FRAMES_DEAD
                            \/ faded[j].amplitude < AMPLITUDE_THRESHOLD ]_vars

\* C39 witness: a partial outside the window was matched again while its copy
\* is muted, and is still stored active under its id
MutedPartialStillTracked ==
    \E i \in 1..Len(activeTracks) :
       /\ ~partials[i].isActive
       /\ partials[i].trackID = activeTracks[i].trackID
       /\ activeTracks[i].isActive
       /\ activeTracks[i].framesSinceCreation >= 3
       /\ activeTracks[i].framesSinceLastUpdate = 0

(***************************************************************************)
(* C38: the active list is in strictly ascending trackID order; a frame    *)
(* keeps the survivors in their order, each moved down by the number of    *)
(* retired tracks before it, and puts the births after them; voice i is    *)
(* driven by the i-th track, so the oldest survivor drives voice 0 and a   *)
(* track behind a retired one drives the next lower voice from that frame. *)
(***************************************************************************)
ActiveListAscendingById ==
    /\ [](\A i, j \in 1..Len(activeTracks) :
             i < j => activeTracks[i].trackID < activeTracks[j].trackID)
    /\ [][IsFrameStep =>
            /\ \A i \in 1..Len(activeTracks) : \A k \in 1..Len(activeTracks') :
                  activeTracks'[k].trackID = activeTracks[i].trackID
                     => k = i - Cardinality({ j \in 1..(i - 1) :
                                 \A n \in 1..Len(activeTracks') :
                                    activeTracks'[n].trackID # activeTracks[j].trackID })
            /\ \A k \in 1..Len(partials') :
                  k <= MaxVoicesOf(currentVoice)
                     => /\ partials'[k].trackID = activeTracks'[k].trackID
                        /\ voices'[k].target = partials'[k].amplitude
                        /\ voices'[k].isActive = partials'[k].isActive ]_vars

\* C38 witness: the first of two tracks was retired in the last frame and the
\* second, the newest id issued, now stands first and drives voice 0
SurvivorMovedDown ==
    /\ evt.kind = "frame"
    /\ evt.retired = 1
    /\ Len(activeTracks) = 1
    /\ activeTracks[1].trackID >= 1
    /\ activeTracks[1].trackID = nextTrackID - 1
    /\ activeTracks[1].framesSinceCreation + activeTracks[1].framesSinceLastUpdate >= 2
    /\ voices[1].target = activeTracks[1].amplitude

(***************************************************************************)
(* C31: the per-track maps of the blur and feedback modifiers stay         *)
(* bounded: neither ever holds more entries than a fixed multiple (here    *)
(* twice) of the track cap, the entries of retired ids being pruned.       *)
(***************************************************************************)
ModifierMapsBounded ==
    /\ Cardinality(DOMAIN prevPartialAmplitudes) <= 2 * MaxActiveTracks
    /\ Cardinality(DOMAIN feedbackAmplitudes) <= 2 * MaxActiveTracks

(***************************************************************************)
(* C32: a frame update with the modified track list T and                  *)
(* n = min(|T|, maxVoices) gives voice i < n the frequency target, the     *)
(* amplitude target and the active flag of T[i], a track the window has    *)
(* deactivated included; every other voice gets the amplitude target 0,    *)
(* keeps its flag while its smoothed amplitude is at least 0.001 and is    *)
(* inactive from the first frame update that finds it below 0.001.         *)
(***************************************************************************)
VoicesFollowTrackList ==
    [][ IsFrameStep =>
          \A sounding \in { BankProcessSample(voices) } :
          \A n \in { IF Len(partials') < MaxVoicesOf(currentVoice)
                     THEN Len(partials') ELSE MaxVoicesOf(currentVoice) } :
          \A i \in 1..NUM_VOICES :
             IF i <= n
             THEN /\ voices'[i].frequency = partials'[i].frequency
                  /\ voices'[i].target = partials'[i].amplitude
                  /\ voices'[i].isActive = partials'[i].isActive
             ELSE /\ voices'[i].target = 0
                  /\ voices'[i].frequency = sounding[i].frequency
                  /\ voices'[i].current = sounding[i].current
                  /\ voices'[i].isActive
                        = (sounding[i].isActive
                             /\ sounding[i].current >= AMPLITUDE_THRESHOLD) ]_vars

\* C32 witness: the last track was retired in a frame update and the voice it
\* drove, beyond the list now, has the target 0 and is still active above 0.001
VoiceBeyondListStillSounding ==
    /\ evt.kind = "processed"
    /\ evt.frame
    /\ Len(partials) = 0
    /\ \E i \in 1..NUM_VOICES :
          /\ voices[i].isActive
          /\ voices[i].target = 0
          /\ voices[i].current >= AMPLITUDE_THRESHOLD
          /\ voices[i].frequency > 0

=============================================================================
